---- MODULE Spec2Model ----
(***************************************************************************)
(* Model of the spell-cast-rs back-end: one lobby of the lobby registry,   *)
(* the connections attached to it, and the persisted game sessions that    *)
(* the websocket handler (backend/src/websocket/handler.rs) drives through *)
(* the queries of backend/src/db/queries.rs.                               *)
(*                                                                         *)
(* Every handler is cut at its await points on the database: the part of   *)
(* a handler that runs between two awaits is one action.  A socket is      *)
(* closed only between two messages (the receive loop polls the socket     *)
(* only after the handler of the previous message has returned).           *)
(***************************************************************************)
EXTENDS Integers, Sequences, FiniteSets, TLC

\* ---------------------------------------------------------------- bounds
NumUsers == 2
NumConns == 3
MaxGames == 1
MaxMoves == 2
CountUsers == 7
\* rounds of a session: the handler passes total_rounds = 5 to create_game_session,
\* the model plays shorter sessions
TotalRounds == 2
\* the clock advances in steps of TickLen seconds up to MaxTime
\* users of the lobby whose host is away; the host has one socket more
AwayUsers == 3
TickLen == 60
MaxTime == 180
\* lobby codes the generator can emit
NumCodes == 2
NumChannels == 1
CodeChoices == 2
\* capacity of the channel of a connection (mpsc::channel(100) in the program) and
\* number of messages sent on it
ChannelCap == 2
MaxMsgs == 3
\* the random positions of the grid generator are drawn from rows and columns below
MultRange == 3
\* length of the paths enumerated for the scorer and the validator
MaxPathLen == 3

\* ------------------------------------------------------ program constants
MinPlayers == 2
MaxPlayers == 6
GridSize == 5
LengthBonusAt == 6
LengthBonus == 10
PlayerGrace == 60
LobbyGrace == 120

NONE == 0

MaxU == IF CountUsers > NumUsers THEN CountUsers ELSE NumUsers
MaxC == IF CountUsers > NumConns THEN CountUsers ELSE NumConns
AllUsers == 1..MaxU
AllConns == 1..MaxC
Users == 1..NumUsers
Conns == 1..NumConns
GameIds == 1..MaxGames

NoMsg == [type |-> "none"]
NoLocal == [k |-> "none"]

VARIABLES
    players,         \* Lobby.players: user_id -> connection_state ("Absent" = no entry)
    host_id,         \* Lobby.host_id
    active_game_id,  \* Lobby.active_game_id
    game_starting,   \* Lobby.game_starting
    empty_since,     \* Lobby.empty_since: "None" or "Some"
    conn_user,       \* AuthenticatedUser of each socket
    context,         \* PlayerContext.lobby_id of each socket: TRUE = Some(lobby)
    pc,              \* position of the handler running on each socket
    local,           \* locals of the handler running on each socket
    games,           \* table games: game_id -> row ("none" = no row)
    created,         \* number of game rows ever inserted (ids are never reused)
    game_players,    \* table game_players: game_id -> rows in joined_at order
    boards,          \* table game_boards: game_id -> row, or NoBoard
    moves,           \* table game_moves, in insertion order
    out,             \* messages enqueued by the last step
    now,             \* Instant::now(), in seconds
    since,           \* AwaitingReconnect.since of each player (0 in any other state)
    empty_at,        \* the instant in Lobby.empty_since (0 when it is None)
    registered,      \* the lobby is in AppState.lobbies (and its code in the code index)
    sweep,           \* position and locals of lobby_cleanup_task
    round_turns,     \* history: senders of the accepted turns of the current round, per game
    lobbies,         \* AppState.lobbies restricted to custom lobbies: lobby_id -> Lobby
    lobby_code_index,\* AppState.lobby_code_index: lobby_code -> lobby_id
    lobby_ctx,       \* PlayerContext.lobby_id of each user of the custom lobbies
    queue,           \* the mpsc channel of a connection: messages sent on tx, not yet received
    wire,            \* the messages written to the websocket of that connection, in order
    enqueued,        \* history: number of messages ever sent on tx of that connection
    probe,           \* input and result of the last call of a pure function
    broadcast,           \* the broadcast in flight: its message and the members still to visit
    stalled          \* the connections whose client stopped reading: the send task waits

lobbyVars == <<players, host_id, active_game_id, game_starting, empty_since>>
dbVars == <<games, created, game_players, boards, moves>>
connVars == <<conn_user, context, pc, local>>
sweepVars == <<now, since, empty_at, registered, sweep>>
auxVars == <<lobbies, lobby_code_index, lobby_ctx, queue, wire, enqueued, probe, broadcast, stalled>>
vars == <<players, host_id, active_game_id, game_starting, empty_since,
          conn_user, context, pc, local,
          games, created, game_players, boards, moves, out,
          now, since, empty_at, registered, sweep, round_turns,
          lobbies, lobby_code_index, lobby_ctx, queue, wire, enqueued, probe,
          broadcast, stalled>>

\* ------------------------------------------------------------------ lobby

NoGame == [state |-> "none", current_round |-> 0, max_rounds |-> 0, current_turn_player |-> NONE]
NoBoard == [present |-> FALSE, grid |-> <<>>, used_words |-> {}]

is_connected(u) == players[u] = "Connected"

connected_player_countMut == Cardinality({u \in AllUsers : players[u] # "Absent"})
connected_player_count == Cardinality({u \in AllUsers : is_connected(u)})

has_any_players == \E u \in AllUsers : players[u] # "Absent"

is_host(u) == host_id = u

\* Lobby::try_start_game succeeds iff there is no active game and no start in flight
try_start_game == active_game_id = NONE /\ ~game_starting

Out(c, op, reply, bcast) == [conn |-> c, op |-> op, reply |-> reply, bcast |-> bcast]

Err(code) == [type |-> "game_error", code |-> code]

\* broadcast_lobby_player_list: every visible member, to the members that are connected
broadcast_lobby_player_listMut(P) ==
    [type |-> "lobby_player_list",
     players |-> {v \in AllUsers : P[v] = "Connected"},
     to |-> {v \in AllUsers : P[v] = "Connected"}]
broadcast_lobby_player_list(P) ==
    [type |-> "lobby_player_list",
     players |-> {v \in AllUsers : P[v] # "Absent"},
     to |-> {v \in AllUsers : P[v] = "Connected"}]

\* JoinChannelLobby: get_or_create_channel_lobby, then add_player_to_lobby on its
\* reconnect path or its new-join path
JoinLobbyMut(c) ==
    LET u == conn_user[c] IN
    /\ pc[c] = "idle"
    /\ registered' = TRUE
    /\ context' = [context EXCEPT ![c] = TRUE]
    /\ players' = [players EXCEPT ![u] = "Connected"]
    /\ since' = [since EXCEPT ![u] = 0]
    /\ empty_since' = "None"
    /\ empty_at' = 0
    /\ host_id' = IF host_id = NONE \/ players[host_id] # "Connected" THEN u ELSE host_id
    /\ out' = Out(c, "join", [type |-> "lobby_joined", game_state |-> active_game_id # NONE,
                               rejoin |-> players[u] # "Absent"],
                  broadcast_lobby_player_list(players'))
    /\ pc' = IF active_game_id # NONE THEN [pc EXCEPT ![c] = "join_state"] ELSE pc
    /\ UNCHANGED <<active_game_id, game_starting, conn_user, local>>
    /\ UNCHANGED dbVars
    /\ UNCHANGED <<now, sweep, round_turns>>
    /\ UNCHANGED auxVars
JoinLobby(c) ==
    LET u == conn_user[c] IN
    /\ pc[c] = "idle"
    /\ registered' = TRUE
    /\ context' = [context EXCEPT ![c] = TRUE]
    /\ players' = [players EXCEPT ![u] = "Connected"]
    /\ since' = [since EXCEPT ![u] = 0]
    /\ empty_since' = "None"
    /\ empty_at' = 0
    /\ host_id' = IF players[u] = "Absent" /\ host_id = NONE THEN u ELSE host_id
    /\ out' = Out(c, "join", [type |-> "lobby_joined", game_state |-> active_game_id # NONE,
                               rejoin |-> players[u] # "Absent"],
                  broadcast_lobby_player_list(players'))
    /\ pc' = IF active_game_id # NONE THEN [pc EXCEPT ![c] = "join_state"] ELSE pc
    /\ UNCHANGED <<active_game_id, game_starting, conn_user, local>>
    /\ UNCHANGED dbVars
    /\ UNCHANGED <<now, sweep, round_turns>>
    /\ UNCHANGED auxVars

\* LeaveLobby -> remove_player_from_lobby (nothing to do when the lobby is gone)
LeaveLobby(c) ==
    LET u == conn_user[c]
        rest == {v \in AllUsers : v # u /\ players[v] # "Absent"} IN
    /\ pc[c] = "idle"
    /\ context[c]
    /\ context' = [context EXCEPT ![c] = FALSE]
    /\ IF registered
       THEN /\ players' = [players EXCEPT ![u] = "Absent"]
            /\ since' = [since EXCEPT ![u] = 0]
            /\ empty_since' = IF rest = {} THEN "Some" ELSE empty_since
            /\ empty_at' = IF rest = {} /\ empty_since = "None" THEN now ELSE empty_at
            /\ out' = Out(c, "leave", NoMsg,
                          IF rest = {} THEN NoMsg ELSE broadcast_lobby_player_list(players'))
       ELSE /\ out' = Out(c, "leave", NoMsg, NoMsg)
            /\ UNCHANGED <<players, since, empty_since, empty_at>>
    /\ UNCHANGED <<host_id, active_game_id, game_starting, conn_user, pc, local>>
    /\ UNCHANGED dbVars
    /\ UNCHANGED <<now, registered, sweep, round_turns>>
    /\ UNCHANGED auxVars

\* socket closed -> mark_player_awaiting_reconnect; the slot is then a fresh socket
SocketCloseMut(c) ==
    LET u == conn_user[c]
        marked == IF players[u] # "Absent"
                  THEN [players EXCEPT ![u] = "Absent"]
                  ELSE players
        all_awaiting == \A v \in AllUsers : marked[v] # "Connected" IN
    /\ pc[c] = "idle"
    /\ context[c]
    /\ context' = [context EXCEPT ![c] = FALSE]
    /\ IF registered
       THEN /\ players' = marked
            /\ since' = IF players[u] # "Absent" THEN [since EXCEPT ![u] = now] ELSE since
            /\ empty_since' = IF all_awaiting THEN "Some" ELSE empty_since
            /\ empty_at' = IF all_awaiting /\ empty_since = "None" THEN now ELSE empty_at
       ELSE UNCHANGED <<players, since, empty_since, empty_at>>
    /\ out' = Out(c, "close", NoMsg, NoMsg)
    /\ UNCHANGED <<host_id, active_game_id, game_starting, conn_user, pc, local>>
    /\ UNCHANGED dbVars
    /\ UNCHANGED <<now, registered, sweep, round_turns>>
    /\ UNCHANGED auxVars
SocketClose(c) ==
    LET u == conn_user[c]
        marked == IF players[u] # "Absent"
                  THEN [players EXCEPT ![u] = "AwaitingReconnect"]
                  ELSE players
        all_awaiting == \A v \in AllUsers : marked[v] # "Connected" IN
    /\ pc[c] = "idle"
    /\ context[c]
    /\ context' = [context EXCEPT ![c] = FALSE]
    /\ IF registered
       THEN /\ players' = marked
            /\ since' = IF players[u] # "Absent" THEN [since EXCEPT ![u] = now] ELSE since
            /\ empty_since' = IF all_awaiting THEN "Some" ELSE empty_since
            /\ empty_at' = IF all_awaiting /\ empty_since = "None" THEN now ELSE empty_at
       ELSE UNCHANGED <<players, since, empty_since, empty_at>>
    /\ out' = Out(c, "close", NoMsg, NoMsg)
    /\ UNCHANGED <<host_id, active_game_id, game_starting, conn_user, pc, local>>
    /\ UNCHANGED dbVars
    /\ UNCHANGED <<now, registered, sweep, round_turns>>
    /\ UNCHANGED auxVars

\* ------------------------------------------------------ lobby_cleanup_task

NoSweep == [pc |-> "idle", players_to_remove |-> {}, lobby_to_remove |-> FALSE]

\* time passes
Tick ==
    /\ now + TickLen <= MaxTime
    /\ now' = now + TickLen
    /\ out' = Out(NONE, "tick", NoMsg, NoMsg)
    /\ UNCHANGED <<since, empty_at, registered, sweep, round_turns>>
    /\ UNCHANGED lobbyVars
    /\ UNCHANGED connVars
    /\ UNCHANGED dbVars
    /\ UNCHANGED auxVars

\* a player is past the grace period at the instant of the scan
\* time passing beyond MaxTime: the clock is kept at MaxTime and every instant that is
\* held is moved back by TickLen instead; an instant that reaches 0 lies further back
\* than both grace periods, so every comparison of the sweep comes out as with now growing
TickOn ==
    /\ now + TickLen > MaxTime
    /\ MaxTime > LobbyGrace /\ MaxTime > PlayerGrace
    /\ since' = [u \in AllUsers |-> IF since[u] > TickLen THEN since[u] - TickLen ELSE 0]
    /\ empty_at' = IF empty_at > TickLen THEN empty_at - TickLen ELSE 0
    /\ out' = Out(NONE, "tick", NoMsg, NoMsg)
    /\ UNCHANGED <<now, registered, sweep, round_turns>>
    /\ UNCHANGED lobbyVars
    /\ UNCHANGED connVars
    /\ UNCHANGED dbVars
    /\ UNCHANGED auxVars

PlayerExpired(u) == players[u] = "AwaitingReconnect" /\ now - since[u] > PlayerGrace

\* the lobby is past its grace period at the instant of the scan
LobbyExpired == empty_since = "Some" /\ now - empty_at > LobbyGrace

\* the scan of a sweep: the players and the lobby past their grace periods are listed
SweepScan ==
    /\ sweep.pc = "idle"
    /\ registered
    /\ sweep' = [pc |-> "remove",
                 players_to_remove |-> {u \in AllUsers : PlayerExpired(u)},
                 lobby_to_remove |-> LobbyExpired]
    /\ out' = Out(NONE, "sweep_scan", NoMsg, NoMsg)
    /\ UNCHANGED <<now, since, empty_at, registered, round_turns>>
    /\ UNCHANGED lobbyVars
    /\ UNCHANGED connVars
    /\ UNCHANGED dbVars
    /\ UNCHANGED auxVars

\* the removal of one listed player, followed by the broadcast of the player list
SweepRemovePlayer(u) ==
    /\ sweep.pc = "remove"
    /\ u \in sweep.players_to_remove
    /\ sweep' = [sweep EXCEPT !.players_to_remove = @ \ {u}]
    /\ IF registered
       THEN /\ players' = [players EXCEPT ![u] = "Absent"]
            /\ since' = [since EXCEPT ![u] = 0]
            /\ out' = Out(NONE, "sweep_player", [type |-> "removed", user_id |-> u],
                          broadcast_lobby_player_list(players'))
       ELSE /\ out' = Out(NONE, "sweep_player", NoMsg, NoMsg)
            /\ UNCHANGED <<players, since>>
    /\ UNCHANGED <<host_id, active_game_id, game_starting, empty_since>>
    /\ UNCHANGED <<now, empty_at, registered, round_turns>>
    /\ UNCHANGED connVars
    /\ UNCHANGED dbVars
    /\ UNCHANGED auxVars

\* the end of a sweep: the listed lobby leaves the registry and the code index
SweepRemoveLobby ==
    /\ sweep.pc = "remove"
    /\ sweep.players_to_remove = {}
    /\ sweep' = NoSweep
    /\ IF sweep.lobby_to_remove /\ registered
       THEN /\ registered' = FALSE
            /\ players' = [u \in AllUsers |-> "Absent"]
            /\ since' = [u \in AllUsers |-> 0]
            /\ host_id' = NONE
            /\ active_game_id' = NONE
            /\ game_starting' = FALSE
            /\ empty_since' = "None"
            /\ empty_at' = 0
            /\ out' = Out(NONE, "sweep_lobby", [type |-> "removed"], NoMsg)
       ELSE /\ out' = Out(NONE, "sweep_lobby", NoMsg, NoMsg)
            /\ UNCHANGED <<registered, since, empty_at>>
            /\ UNCHANGED lobbyVars
    /\ UNCHANGED <<now, round_turns>>
    /\ UNCHANGED connVars
    /\ UNCHANGED dbVars
    /\ UNCHANGED auxVars

\* --------------------------------------------------------------- StartGame

\* StartGame with no lobby in the connection's context
StartGameNotInLobby(c) ==
    /\ pc[c] = "idle"
    /\ ~context[c]
    /\ out' = Out(c, "start_game", Err("not_in_lobby"), NoMsg)
    /\ UNCHANGED lobbyVars
    /\ UNCHANGED connVars
    /\ UNCHANGED dbVars
    /\ UNCHANGED sweepVars
    /\ UNCHANGED round_turns
    /\ UNCHANGED auxVars

\* handle_start_game step 1: is the sender allowed to go on to try_start_game
StartGameIsHostMut(c) == players[conn_user[c]] # "Absent"
StartGameIsHost(c) == is_host(conn_user[c])

StartGameNotHost(c) ==
    /\ pc[c] = "idle"
    /\ context[c]
    /\ ~StartGameIsHost(c)
    /\ out' = Out(c, "start_game", Err("not_host"), NoMsg)
    /\ UNCHANGED lobbyVars
    /\ UNCHANGED connVars
    /\ UNCHANGED dbVars
    /\ UNCHANGED sweepVars
    /\ UNCHANGED round_turns
    /\ UNCHANGED auxVars

\* handle_start_game step 2 failing
StartGameInProgress(c) ==
    /\ pc[c] = "idle"
    /\ context[c]
    /\ StartGameIsHost(c)
    /\ ~try_start_game
    /\ out' = Out(c, "start_game", Err("game_in_progress"), NoMsg)
    /\ UNCHANGED lobbyVars
    /\ UNCHANGED connVars
    /\ UNCHANGED dbVars
    /\ UNCHANGED sweepVars
    /\ UNCHANGED round_turns
    /\ UNCHANGED auxVars

\* handle_start_game step 3: the error for a connected count, or "ok"
PlayerCountCheck(n) ==
    IF n < MinPlayers THEN "not_enough_players"
    ELSE IF n > MaxPlayers THEN "too_many_players"
    ELSE "ok"

\* steps 2 and 3: try_start_game passes, the count check fails, the flag is cleared
StartGameRejectCount(c) ==
    /\ pc[c] = "idle"
    /\ context[c]
    /\ StartGameIsHost(c)
    /\ try_start_game
    /\ PlayerCountCheck(connected_player_count) # "ok"
    /\ game_starting' = FALSE
    /\ out' = Out(c, "start_game", Err(PlayerCountCheck(connected_player_count)), NoMsg)
    /\ UNCHANGED <<players, host_id, active_game_id, empty_since>>
    /\ UNCHANGED connVars
    /\ UNCHANGED dbVars
    /\ UNCHANGED sweepVars
    /\ UNCHANGED round_turns
    /\ UNCHANGED auxVars

\* steps 2 to 5: the flag is taken and the connected players are collected
StartGameAcceptedMut(c) ==
    /\ pc[c] = "idle"
    /\ context[c]
    /\ StartGameIsHost(c)
    /\ PlayerCountCheck(connected_player_count) = "ok"
    /\ game_starting' = TRUE
    /\ pc' = [pc EXCEPT ![c] = "sg_create"]
    /\ local' = [local EXCEPT ![c] =
                   [k |-> "start", game_id |-> NONE,
                    players_info |-> {u \in AllUsers : is_connected(u)}]]
    /\ out' = Out(c, "start_game", NoMsg, NoMsg)
    /\ UNCHANGED <<players, host_id, active_game_id, empty_since, conn_user, context>>
    /\ UNCHANGED dbVars
    /\ UNCHANGED sweepVars
    /\ UNCHANGED round_turns
    /\ UNCHANGED auxVars
StartGameAccepted(c) ==
    /\ pc[c] = "idle"
    /\ context[c]
    /\ StartGameIsHost(c)
    /\ try_start_game
    /\ PlayerCountCheck(connected_player_count) = "ok"
    /\ game_starting' = TRUE
    /\ pc' = [pc EXCEPT ![c] = "sg_create"]
    /\ local' = [local EXCEPT ![c] =
                   [k |-> "start", game_id |-> NONE,
                    players_info |-> {u \in AllUsers : is_connected(u)}]]
    /\ out' = Out(c, "start_game", NoMsg, NoMsg)
    /\ UNCHANGED <<players, host_id, active_game_id, empty_since, conn_user, context>>
    /\ UNCHANGED dbVars
    /\ UNCHANGED sweepVars
    /\ UNCHANGED round_turns
    /\ UNCHANGED auxVars

\* clear_and_err: clear the flag, report the error, the handler returns
ClearAndErrMut(c, code) ==
    /\ game_starting' = game_starting
    /\ pc' = [pc EXCEPT ![c] = "idle"]
    /\ local' = [local EXCEPT ![c] = NoLocal]
    /\ out' = Out(c, "start_game", Err(code), NoMsg)
    /\ UNCHANGED <<players, host_id, active_game_id, empty_since, conn_user, context>>
    /\ UNCHANGED sweepVars
    /\ UNCHANGED round_turns
    /\ UNCHANGED auxVars
ClearAndErr(c, code) ==
    /\ game_starting' = FALSE
    /\ pc' = [pc EXCEPT ![c] = "idle"]
    /\ local' = [local EXCEPT ![c] = NoLocal]
    /\ out' = Out(c, "start_game", Err(code), NoMsg)
    /\ UNCHANGED <<players, host_id, active_game_id, empty_since, conn_user, context>>
    /\ UNCHANGED sweepVars
    /\ UNCHANGED round_turns
    /\ UNCHANGED auxVars

\* create_game_session fails
CreateGameSessionErr(c) ==
    /\ pc[c] = "sg_create"
    /\ ClearAndErr(c, "database_error")
    /\ UNCHANGED dbVars

\* ------------------------------------------------------- persistence port

Max(S) == CHOOSE x \in S : \A y \in S : y <= x

Orders(S) == {s \in [1..Cardinality(S) -> S] : \A i, j \in 1..Cardinality(S) : i # j => s[i] # s[j]}

GameExists(g) == games[g].state # "none"

\* get_game_players: SELECT ... ORDER BY joined_at (rows are kept in joined_at order)
get_game_players(g) == game_players[g]

\* the player rows of get_active_game_for_lobby: ORDER BY team, joined_at
PlayersByTeam(rows) ==
    LET n == Len(rows)
        rank(i) == 1 + Cardinality({j \in 1..n : \/ rows[j].team < rows[i].team
                                                 \/ rows[j].team = rows[i].team /\ j < i})
    IN [k \in 1..n |-> rows[CHOOSE i \in 1..n : rank(i) = k]]

\* position(|p| p.user_id == turn_player).unwrap_or(0), 0-based
CurrentPlayerIndex(rows, turn_player) ==
    LET byTeam == PlayersByTeam(rows)
        hits == {i \in 1..Len(byTeam) : byTeam[i].user_id = turn_player}
    IN IF turn_player = NONE \/ hits = {} THEN 0
       ELSE (CHOOSE i \in hits : \A j \in hits : i <= j) - 1

\* the game row get_active_game_for_lobby selects: the newest one that is waiting or active
ActiveGameRow ==
    LET S == {g \in GameIds : games[g].state \in {"waiting", "active"}}
    IN IF S = {} THEN NONE ELSE Max(S)

\* get_active_game_for_lobby: the GameState built from the rows of game g
get_active_game_for_lobby(g) ==
    [game_id |-> g,
     grid |-> boards[g].grid,
     current_round |-> games[g].current_round,
     total_rounds |-> games[g].max_rounds,
     current_player_index |-> CurrentPlayerIndex(game_players[g], games[g].current_turn_player),
     used_words |-> boards[g].used_words]

\* update_player_score: UPDATE game_players SET score = $1
update_player_score(rows, user_id, score) ==
    [i \in 1..Len(rows) |-> IF rows[i].user_id = user_id
                            THEN [rows[i] EXCEPT !.score = score]
                            ELSE rows[i]]

\* max_by_key(|p| p.score): the last row among those of maximal score
WinnerOfMut(rows) ==
    IF Len(rows) = 0 THEN NONE
    ELSE LET best == {i \in 1..Len(rows) : \A j \in 1..Len(rows) : rows[j].score >= rows[i].score}
         IN rows[Max(best)].user_id
WinnerOf(rows) ==
    IF Len(rows) = 0 THEN NONE
    ELSE LET best == {i \in 1..Len(rows) : \A j \in 1..Len(rows) : rows[j].score <= rows[i].score}
         IN rows[Max(best)].user_id

Scores(rows) == {<<rows[i].user_id, rows[i].score>> : i \in 1..Len(rows)}

\* ------------------------------------------------------------ grid engine

Pos == [row : 0..(GridSize - 1), col : 0..(GridSize - 1)]

P(r, c) == [row |-> r, col |-> c]

\* get_letter_value for the letters the model samples
LetterValue(ch) ==
    CASE ch \in {"A", "E"} -> 1
      [] ch \in {"R", "T"} -> 2
      [] ch = "H" -> 4
      [] ch \in {"Q", "Z"} -> 8
      [] OTHER -> 1

Cell(ch, mult) == [letter |-> ch, value |-> LetterValue(ch), multiplier |-> mult, has_gem |-> FALSE]

\* one grid GridGenerator::generate can return: row 0 is H E A R T, 3 DL and 2 TL cells
SampleGrid ==
    [p \in Pos |->
        LET ch == IF p.row = 0 THEN <<"H", "E", "A", "R", "T">>[p.col + 1] ELSE "E"
            mult == IF p \in {P(0, 0), P(2, 0), P(3, 3)} THEN "DoubleLetter"
                    ELSE IF p \in {P(1, 1), P(4, 4)} THEN "TripleLetter"
                    ELSE "None"
        IN Cell(ch, mult)]

GeneratedGrids == {SampleGrid}

\* letters replace_letters samples in the model
SampleLetters == {"E"}

Range(seq) == {seq[i] : i \in 1..Len(seq)}

\* replace_letters: fresh letters at the played positions, multipliers cleared
replace_letters(grid, positions) ==
    {[p \in DOMAIN grid |->
         IF p \in Range(positions)
         THEN [grid[p] EXCEPT !.letter = f[p], !.value = LetterValue(f[p]), !.multiplier = "None"]
         ELSE grid[p]] : f \in [Range(positions) \cap DOMAIN grid -> SampleLetters]}

\* -------------------------------------------------------------- validator

Abs(x) == IF x < 0 THEN -x ELSE x

are_adjacent(pos1, pos2) ==
    LET row_diff == Abs(pos1.row - pos2.row)
        col_diff == Abs(pos1.col - pos2.col)
    IN row_diff <= 1 /\ col_diff <= 1 /\ row_diff + col_diff > 0

is_valid_pathMut(positions) ==
    /\ Len(positions) > 0
    /\ \A i \in 1..(Len(positions) - 1) : are_adjacent(positions[i], positions[i + 1])
    /\ \A i \in 1..Len(positions) : positions[i].row < GridSize /\ positions[i].col < GridSize
is_valid_path(positions) ==
    /\ Len(positions) > 0
    /\ \A i \in 1..(Len(positions) - 1) : are_adjacent(positions[i], positions[i + 1])
    /\ Cardinality(Range(positions)) = Len(positions)
    /\ \A i \in 1..Len(positions) : positions[i].row < GridSize /\ positions[i].col < GridSize

\* ------------------------------------------------------------- dictionary

\* char::to_uppercase on the letters of the model's alphabet
ToUpperChar(ch) ==
    CASE ch = "h" -> "H"
      [] ch = "e" -> "E"
      [] ch = "a" -> "A"
      [] ch = "r" -> "R"
      [] ch = "t" -> "T"
      [] ch = "q" -> "Q"
      [] OTHER -> ch

to_uppercase(word) == [i \in 1..Len(word) |-> ToUpperChar(word[i])]

\* the words loaded at startup (upper-cased, at least 2 characters)
DictionaryWords == {<<"H", "E">>, <<"A", "T">>, <<"A", "R", "T">>}

DictionaryContains(word) == to_uppercase(word) \in DictionaryWords

\* ----------------------------------------------------------------- scorer

RECURSIVE LetterScoreTotal(_, _, _)
LetterScoreTotal(grid, positions, i) ==
    IF i > Len(positions) THEN 0
    ELSE LET cell == grid[positions[i]]
             letter_score == CASE cell.multiplier = "DoubleLetter" -> cell.value * 2
                               [] cell.multiplier = "TripleLetter" -> cell.value * 3
                               [] OTHER -> cell.value
         IN letter_score + LetterScoreTotal(grid, positions, i + 1)

length_bonus(length) == IF length >= LengthBonusAt THEN LengthBonus ELSE 0

calculate_scoreMut(grid, positions) ==
    LET letter_score_total == LetterScoreTotal(grid, positions, 1)
        has_double_word == \E i \in 1..Len(positions) : grid[positions[i]].multiplier = "DoubleWord"
        total == letter_score_total + length_bonus(Len(positions))
    IN IF has_double_word THEN total * 2 ELSE total
calculate_score(grid, positions) ==
    LET letter_score_total == LetterScoreTotal(grid, positions, 1)
        has_double_word == \E i \in 1..Len(positions) : grid[positions[i]].multiplier = "DoubleWord"
        word_score == IF has_double_word THEN letter_score_total * 2 ELSE letter_score_total
    IN word_score + length_bonus(Len(positions))

\* calculate_score_with_gems: the score and the gems of the cells of the path
calculate_score_with_gems(grid, positions) ==
    [score |-> calculate_score(grid, positions),
     gems_collected |-> Cardinality({i \in 1..Len(positions) : grid[positions[i]].has_gem})]

\* ------------------------------------------------- StartGame, persistence

\* create_game_session: a waiting row with the sender as first turn player
CreateGameSessionOk(c) ==
    LET g == created + 1 IN
    /\ pc[c] = "sg_create"
    /\ created < MaxGames
    /\ games' = [games EXCEPT ![g] =
                   [state |-> "waiting", current_round |-> 1, max_rounds |-> TotalRounds,
                    current_turn_player |-> conn_user[c]]]
    /\ created' = g
    /\ round_turns' = [round_turns EXCEPT ![g] = <<>>]
    /\ pc' = [pc EXCEPT ![c] = "sg_players"]
    /\ local' = [local EXCEPT ![c].game_id = g]
    /\ out' = Out(c, "start_game", NoMsg, NoMsg)
    /\ UNCHANGED lobbyVars
    /\ UNCHANGED <<conn_user, context, game_players, boards, moves>>
    /\ UNCHANGED sweepVars
    /\ UNCHANGED auxVars

\* add_game_players_batch with the shuffled order: turn_order (column team) = index
AddGamePlayersOk(c) ==
    LET g == local[c].game_id IN
    /\ pc[c] = "sg_players"
    /\ GameExists(g)
    /\ \E order \in Orders(local[c].players_info) :
          /\ game_players' = [game_players EXCEPT ![g] =
                [i \in 1..Len(order) |-> [user_id |-> order[i], team |-> i - 1, score |-> 0]]]
          /\ local' = [local EXCEPT ![c].players_info = order]
    /\ pc' = [pc EXCEPT ![c] = "sg_board"]
    /\ out' = Out(c, "start_game", NoMsg, NoMsg)
    /\ UNCHANGED lobbyVars
    /\ UNCHANGED <<conn_user, context, games, created, boards, moves>>
    /\ UNCHANGED sweepVars
    /\ UNCHANGED round_turns
    /\ UNCHANGED auxVars

AddGamePlayersErr(c) ==
    /\ pc[c] = "sg_players"
    /\ ClearAndErr(c, "database_error")
    /\ UNCHANGED dbVars

\* create_or_update_game_board with the generated grid
CreateGameBoardOk(c) ==
    LET g == local[c].game_id IN
    /\ pc[c] = "sg_board"
    /\ GameExists(g)
    /\ \E grid \in GeneratedGrids :
          boards' = [boards EXCEPT ![g] = [present |-> TRUE, grid |-> grid, used_words |-> {}]]
    /\ pc' = [pc EXCEPT ![c] = "sg_activate"]
    /\ out' = Out(c, "start_game", NoMsg, NoMsg)
    /\ UNCHANGED lobbyVars
    /\ UNCHANGED <<conn_user, context, local, games, created, game_players, moves>>
    /\ UNCHANGED sweepVars
    /\ UNCHANGED round_turns
    /\ UNCHANGED auxVars

\* serde_json::to_value or create_or_update_game_board fails
CreateGameBoardErr(c) ==
    /\ pc[c] = "sg_board"
    /\ \E code \in {"serialization_error", "database_error"} : ClearAndErr(c, code)
    /\ UNCHANGED dbVars

\* step 7: link the game to the lobby and clear the flag
LinkGameMut(g) ==
    /\ active_game_id' = g
    /\ game_starting' = game_starting
LinkGame(g) ==
    /\ active_game_id' = g
    /\ game_starting' = FALSE

\* update_game_db_state(Active) succeeds, then steps 7 and 8
ActivateAndLink(c) ==
    LET g == local[c].game_id IN
    /\ pc[c] = "sg_activate"
    /\ games' = IF GameExists(g) THEN [games EXCEPT ![g].state = "active"] ELSE games
    /\ LinkGame(g)
    /\ pc' = [pc EXCEPT ![c] = "idle"]
    /\ local' = [local EXCEPT ![c] = NoLocal]
    /\ out' = Out(c, "start_game", NoMsg,
                  [type |-> "game_started", game_id |-> g,
                   players |-> local[c].players_info,
                   current_player_id |-> local[c].players_info[1]])
    /\ UNCHANGED <<players, host_id, empty_since, conn_user, context,
                   created, game_players, boards, moves>>
    /\ UNCHANGED sweepVars
    /\ UNCHANGED round_turns
    /\ UNCHANGED auxVars

ActivateErr(c) ==
    /\ pc[c] = "sg_activate"
    /\ ClearAndErr(c, "database_error")
    /\ UNCHANGED dbVars

\* -------------------------------------------------------------- SubmitWord

\* the player row the handler indexes with current_player_index
TurnPlayerId(records, index) ==
    IF index + 1 <= Len(records) THEN records[index + 1].user_id ELSE NONE

\* the validations of SubmitWord in the order of the handler; "ok" when all pass
SubmitVerdict(c, word, positions) ==
    IF ~context[c] THEN [type |-> "error", message |-> "You must be in a lobby to submit a word"]
    ELSE IF active_game_id = NONE THEN Err("no_active_game")
    ELSE IF ActiveGameRow = NONE THEN Err("game_not_found")
    ELSE IF TurnPlayerId(get_game_players(ActiveGameRow),
                         get_active_game_for_lobby(ActiveGameRow).current_player_index)
            # conn_user[c]
         THEN Err("not_your_turn")
    ELSE IF ~is_valid_path(positions) THEN [type |-> "invalid_word", reason |-> "Invalid path"]
    ELSE IF ~DictionaryContains(word)
         THEN [type |-> "invalid_word", reason |-> "Word not found in dictionary"]
    ELSE [type |-> "ok"]

\* a SubmitWord that one of the validations turns down
SubmitWordRejectMut(c, word, positions) ==
    /\ pc[c] = "idle"
    /\ SubmitVerdict(c, word, positions).type # "ok"
    /\ out' = Out(c, "submit_word", SubmitVerdict(c, word, positions), NoMsg)
    /\ moves' = Append(moves, [game_id |-> ActiveGameRow, user_id |-> conn_user[c],
                               round_number |-> 0, word |-> word,
                               score |-> 0, positions |-> positions])
    /\ UNCHANGED lobbyVars
    /\ UNCHANGED connVars
    /\ UNCHANGED <<games, created, game_players, boards>>
    /\ UNCHANGED sweepVars
    /\ UNCHANGED round_turns
    /\ UNCHANGED auxVars
SubmitWordReject(c, word, positions) ==
    /\ pc[c] = "idle"
    /\ SubmitVerdict(c, word, positions).type # "ok"
    /\ out' = Out(c, "submit_word", SubmitVerdict(c, word, positions), NoMsg)
    /\ UNCHANGED lobbyVars
    /\ UNCHANGED connVars
    /\ UNCHANGED dbVars
    /\ UNCHANGED sweepVars
    /\ UNCHANGED round_turns
    /\ UNCHANGED auxVars

\* a SubmitWord that passes the validations: the handler goes on with what it loaded
SubmitWordAccept(c, word, positions) ==
    LET gs == get_active_game_for_lobby(ActiveGameRow) IN
    /\ pc[c] = "idle"
    /\ SubmitVerdict(c, word, positions).type = "ok"
    /\ gs.grid # <<>>    \* the scorer indexes the grid: without a board the task panics
    /\ Len(moves) < MaxMoves
    /\ pc' = [pc EXCEPT ![c] = "sw_commit"]
    /\ local' = [local EXCEPT ![c] =
                   [k |-> "submit", game_state |-> gs,
                    player_records |-> get_game_players(ActiveGameRow),
                    word |-> word, positions |-> positions]]
    /\ out' = Out(c, "submit_word", NoMsg, NoMsg)
    /\ UNCHANGED lobbyVars
    /\ UNCHANGED <<conn_user, context>>
    /\ UNCHANGED dbVars
    /\ UNCHANGED sweepVars
    /\ UNCHANGED round_turns
    /\ UNCHANGED auxVars

\* the turn after current_idx: <<next_idx, new_round>>
AdvanceTurn(current_idx, num_players, current_round) ==
    LET next_idx == (current_idx + 1) % num_players
        round_complete == next_idx < current_idx \/ (next_idx = 0 /\ current_idx = num_players - 1)
    IN <<next_idx, IF round_complete THEN current_round + 1 ELSE current_round>>

\* finish_game, clearing of active_game_id, GameOver; or update_game_round, GameState
EndOrContinue(c, op, g, gs, records, final_records, new_grid, used_words) ==
    LET adv == AdvanceTurn(gs.current_player_index, Len(records), gs.current_round)
        next_idx == adv[1]
        new_round == adv[2]
    IN IF new_round > gs.total_rounds
       THEN /\ games' = IF GameExists(g)
                        THEN [games EXCEPT ![g].state = "finished",
                                           ![g].current_turn_player = WinnerOf(final_records)]
                        ELSE games
            /\ active_game_id' = NONE
            /\ out' = Out(c, op, NoMsg, [type |-> "game_over", winner |-> WinnerOf(final_records),
                                     final_scores |-> Scores(final_records)])
       ELSE /\ games' = IF GameExists(g)
                        THEN [games EXCEPT ![g].current_round = new_round,
                                           ![g].current_turn_player = records[next_idx + 1].user_id]
                        ELSE games
            /\ active_game_id' = active_game_id
            /\ out' = Out(c, op, NoMsg, [type |-> "game_state", game_id |-> g, round |-> new_round,
                                     grid |-> new_grid,
                                     players |-> Scores(final_records),
                                     current_turn |-> records[next_idx + 1].user_id,
                                     used_words |-> used_words])

\* the writes of an accepted SubmitWord: score, move, new letters, turn
\* history of the round of game g after an accepted turn of user u: the round starts
\* over when the persisted round moves or the game is finished
RoundTurnsAfter(g, u, games_after) ==
    IF ~GameExists(g) THEN round_turns
    ELSE [round_turns EXCEPT ![g] =
             IF \/ games_after[g].current_round # games[g].current_round
                \/ games_after[g].state = "finished"
             THEN <<>> ELSE Append(@, u)]

SubmitWordCommit(c) ==
    LET gs == local[c].game_state
        g == gs.game_id
        word == local[c].word
        positions == local[c].positions
        word_score == calculate_score(gs.grid, positions)
        scored == update_player_score(game_players[g], conn_user[c], word_score)
    IN
    /\ pc[c] = "sw_commit"
    /\ game_players' = [game_players EXCEPT ![g] = scored]
    /\ moves' = IF GameExists(g)
                THEN Append(moves, [game_id |-> g, user_id |-> conn_user[c],
                                    round_number |-> gs.current_round, word |-> word,
                                    score |-> word_score, positions |-> positions])
                ELSE moves
    /\ \E new_grid \in replace_letters(gs.grid, positions) :
          /\ boards' = IF boards[g].present
                       THEN [boards EXCEPT ![g].grid = new_grid]
                       ELSE boards
          /\ EndOrContinue(c, "submit_word", g, gs, local[c].player_records, scored, new_grid,
                           gs.used_words \cup {to_uppercase(word)})
    /\ pc' = [pc EXCEPT ![c] = "idle"]
    /\ local' = [local EXCEPT ![c] = NoLocal]
    /\ UNCHANGED <<players, host_id, game_starting, empty_since, conn_user, context, created>>
    /\ UNCHANGED sweepVars
    /\ round_turns' = RoundTurnsAfter(g, conn_user[c], games')
    /\ UNCHANGED auxVars

\* ---------------------------------------------------------------- PassTurn

PassVerdict(c) ==
    IF ~context[c] THEN [type |-> "error", message |-> "Not in a lobby"]
    ELSE IF ActiveGameRow = NONE THEN Err("no_game")
    ELSE IF Len(get_game_players(ActiveGameRow)) = 0 THEN NoMsg
    ELSE IF TurnPlayerId(get_game_players(ActiveGameRow),
                         get_active_game_for_lobby(ActiveGameRow).current_player_index)
            # conn_user[c]
         THEN Err("not_your_turn")
    ELSE [type |-> "ok"]

PassTurnReject(c) ==
    /\ pc[c] = "idle"
    /\ PassVerdict(c).type # "ok"
    /\ out' = Out(c, "pass_turn", PassVerdict(c), NoMsg)
    /\ UNCHANGED lobbyVars
    /\ UNCHANGED connVars
    /\ UNCHANGED dbVars
    /\ UNCHANGED sweepVars
    /\ UNCHANGED round_turns
    /\ UNCHANGED auxVars

PassTurnAccept(c) ==
    /\ pc[c] = "idle"
    /\ PassVerdict(c).type = "ok"
    /\ pc' = [pc EXCEPT ![c] = "pt_commit"]
    /\ local' = [local EXCEPT ![c] =
                   [k |-> "pass", game_state |-> get_active_game_for_lobby(ActiveGameRow),
                    player_records |-> get_game_players(ActiveGameRow)]]
    /\ out' = Out(c, "pass_turn", NoMsg, NoMsg)
    /\ UNCHANGED lobbyVars
    /\ UNCHANGED <<conn_user, context>>
    /\ UNCHANGED dbVars
    /\ UNCHANGED sweepVars
    /\ UNCHANGED round_turns
    /\ UNCHANGED auxVars

\* the writes of an accepted PassTurn: the turn only
PassTurnCommitMut(c) ==
    LET gs == local[c].game_state
        g == gs.game_id
        adv == AdvanceTurn(gs.current_player_index, Len(local[c].player_records), gs.current_round)
    IN
    /\ pc[c] = "pt_commit"
    /\ EndOrContinue(c, "pass_turn", g, gs, local[c].player_records,
                     IF adv[2] > gs.total_rounds THEN local[c].player_records
                     ELSE get_game_players(g),
                     gs.grid, gs.used_words)
    /\ pc' = [pc EXCEPT ![c] = "idle"]
    /\ local' = [local EXCEPT ![c] = NoLocal]
    /\ game_players' = [game_players EXCEPT ![g] = update_player_score(@, conn_user[c], 0)]
    /\ UNCHANGED <<players, host_id, game_starting, empty_since, conn_user, context,
                   created, boards, moves>>
    /\ UNCHANGED sweepVars
    /\ round_turns' = RoundTurnsAfter(g, conn_user[c], games')
    /\ UNCHANGED auxVars
PassTurnCommit(c) ==
    LET gs == local[c].game_state
        g == gs.game_id
        adv == AdvanceTurn(gs.current_player_index, Len(local[c].player_records), gs.current_round)
    IN
    /\ pc[c] = "pt_commit"
    /\ EndOrContinue(c, "pass_turn", g, gs, local[c].player_records,
                     IF adv[2] > gs.total_rounds THEN local[c].player_records
                     ELSE get_game_players(g),
                     gs.grid, gs.used_words)
    /\ pc' = [pc EXCEPT ![c] = "idle"]
    /\ local' = [local EXCEPT ![c] = NoLocal]
    /\ UNCHANGED <<players, host_id, game_starting, empty_since, conn_user, context,
                   created, game_players, boards, moves>>
    /\ UNCHANGED sweepVars
    /\ round_turns' = RoundTurnsAfter(g, conn_user[c], games')
    /\ UNCHANGED auxVars

\* ------------------------------------------ game state after a (re)join

\* the GameState message send_active_game_state_if_exists builds from the rows of game g:
\* scores in the order of get_active_game_for_lobby, user ids and the turn in the order
\* of get_game_players
GameStateSnapshot(g) ==
    LET gs == get_active_game_for_lobby(g)
        byTeam == PlayersByTeam(game_players[g])
        records == get_game_players(g)
    IN [type |-> "game_state", game_id |-> g, round |-> gs.current_round,
        grid |-> gs.grid,
        players |-> {<<TurnPlayerId(records, i - 1), byTeam[i].score>> : i \in 1..Len(byTeam)},
        current_turn |-> TurnPlayerId(records, gs.current_player_index),
        used_words |-> gs.used_words]

JoinStateFrame ==
    /\ UNCHANGED lobbyVars
    /\ UNCHANGED dbVars
    /\ UNCHANGED sweepVars
    /\ UNCHANGED <<conn_user, context, round_turns>>
    /\ UNCHANGED auxVars

\* send_active_game_state_if_exists: the join goes on after lobby_joined; the session
\* is read and sent, or nothing is sent when no waiting or active session is found
SendActiveGameStateMut(c) ==
    /\ pc[c] = "join_state"
    /\ out' = Out(c, "join_game_state",
                  IF ActiveGameRow = NONE THEN NoMsg
                  ELSE [GameStateSnapshot(ActiveGameRow) EXCEPT !.round = 1 + @],
                  NoMsg)
    /\ pc' = [pc EXCEPT ![c] = "idle"]
    /\ local' = [local EXCEPT ![c] = NoLocal]
    /\ JoinStateFrame
SendActiveGameState(c) ==
    /\ pc[c] = "join_state"
    /\ out' = Out(c, "join_game_state",
                  IF ActiveGameRow = NONE THEN NoMsg ELSE GameStateSnapshot(ActiveGameRow),
                  NoMsg)
    /\ pc' = [pc EXCEPT ![c] = "idle"]
    /\ local' = [local EXCEPT ![c] = NoLocal]
    /\ JoinStateFrame

\* send_active_game_state_if_exists: the read fails, the error is logged
SendActiveGameStateErr(c) ==
    /\ pc[c] = "join_state"
    /\ out' = Out(c, "join_game_state_err", NoMsg, NoMsg)
    /\ pc' = [pc EXCEPT ![c] = "idle"]
    /\ local' = [local EXCEPT ![c] = NoLocal]
    /\ JoinStateFrame

\* --------------------------------------------------------- AdminDeleteGame

\* DELETE FROM games (cascades to players, board, moves), then the lobby link is cleared
AdminDeleteGame(c, g) ==
    /\ pc[c] = "idle"
    /\ context[c]
    /\ is_host(conn_user[c])
    /\ games' = [games EXCEPT ![g] = NoGame]
    /\ game_players' = [game_players EXCEPT ![g] = <<>>]
    /\ boards' = [boards EXCEPT ![g] = NoBoard]
    /\ moves' = SelectSeq(moves, LAMBDA m : m.game_id # g)
    /\ active_game_id' = IF active_game_id = g THEN NONE ELSE active_game_id
    /\ out' = Out(c, "admin_delete", [type |-> "admin_game_deleted", game_id |-> g], NoMsg)
    /\ UNCHANGED <<players, host_id, game_starting, empty_since, created>>
    /\ UNCHANGED connVars
    /\ UNCHANGED sweepVars
    /\ round_turns' = [round_turns EXCEPT ![g] = <<>>]
    /\ UNCHANGED auxVars

\* ------------------------------------------------- custom lobby registry
\* The custom lobbies of AppState.lobbies and the code index, with the membership
\* of each lobby; the users of this part have one socket each.

Codes == 1..NumCodes

\* format!("custom:{}", lobby_code)
LobbyId(code) == <<"custom", code>>

LobbyIds == {LobbyId(k) : k \in Codes}

Channels == 1..NumChannels

\* format!("channel:{}", channel_id)
ChannelLobbyId(ch) == <<"channel", ch>>

\* the keys AppState.lobbies can hold
RegistryIds == LobbyIds \cup {ChannelLobbyId(ch) : ch \in Channels}

\* Option<String>::None of a lobby_id
NoId == <<"none", 0>>

NoLobby == [present |-> FALSE, lobby_code |-> NONE, players |-> {},
            created_at |-> 0, empty_since |-> "None", empty_at |-> 0]

\* Lobby::new_custom with the code generate_lobby_code returned
new_custom(code) == [present |-> TRUE, lobby_code |-> code, players |-> {},
                     created_at |-> now, empty_since |-> "None", empty_at |-> 0]

\* Lobby::new_channel
new_channel(ch) == [present |-> TRUE, lobby_code |-> NONE, players |-> {},
                    created_at |-> now, empty_since |-> "None", empty_at |-> 0]

\* find_lobby_by_code
find_lobby_by_code(code) == lobby_code_index[code]

\* remove_player_from_lobby on the registry L
RegRemovePlayer(L, id, u) ==
    IF id = NoId \/ ~L[id].present THEN L
    ELSE LET rest == L[id].players \ {u}
         IN [L EXCEPT ![id].players = rest,
                      ![id].empty_since = IF rest = {} THEN "Some" ELSE @,
                      ![id].empty_at = IF rest = {} /\ L[id].empty_since = "None" THEN now ELSE @]

\* add_player_to_lobby on the registry L
RegAddPlayer(L, id, u) ==
    IF ~L[id].present THEN L
    ELSE [L EXCEPT ![id].players = @ \cup {u},
                   ![id].empty_since = "None",
                   ![id].empty_at = 0]

RegFrame ==
    /\ UNCHANGED lobbyVars
    /\ UNCHANGED dbVars
    /\ UNCHANGED <<conn_user, context, now, since, empty_at, registered, round_turns>>
    /\ UNCHANGED <<queue, wire, enqueued, probe, broadcast, stalled>>

\* CreateCustomLobby, up to the lock of the player context: create_custom_lobby with
\* the code the generator emitted
create_custom_lobby(u, code) ==
    /\ pc[u] = "idle"
    /\ lobby_code_index' = [lobby_code_index EXCEPT ![code] = LobbyId(code)]
    /\ lobbies' = [lobbies EXCEPT ![LobbyId(code)] = new_custom(code)]
    /\ pc' = [pc EXCEPT ![u] = "cl_context"]
    /\ local' = [local EXCEPT ![u] = [k |-> "custom", lobby_id |-> LobbyId(code)]]
    /\ out' = Out(u, "create_custom_lobby",
                  [type |-> "lobby_created", lobby_code |-> code, lobby_id |-> LobbyId(code)],
                  NoMsg)
    /\ UNCHANGED <<lobby_ctx, sweep>>
    /\ RegFrame

\* JoinCustomLobby, up to the lock of the player context: find_lobby_by_code
JoinCustomLobbyFind(u, code) ==
    /\ pc[u] = "idle"
    /\ IF find_lobby_by_code(code) = NoId
       THEN /\ out' = Out(u, "join_custom_lobby", [type |-> "error"], NoMsg)
            /\ UNCHANGED <<pc, local>>
       ELSE /\ pc' = [pc EXCEPT ![u] = "cl_context"]
            /\ local' = [local EXCEPT ![u] = [k |-> "custom",
                                              lobby_id |-> find_lobby_by_code(code)]]
            /\ out' = Out(u, "join_custom_lobby", NoMsg, NoMsg)
    /\ UNCHANGED <<lobbies, lobby_code_index, lobby_ctx, sweep>>
    /\ RegFrame

\* JoinChannelLobby, get_or_create_channel_lobby up to its test: contains_key
ChannelLobbyContains(u, ch) ==
    /\ pc[u] = "idle"
    /\ pc' = [pc EXCEPT ![u] = IF lobbies[ChannelLobbyId(ch)].present
                                THEN "cl_context" ELSE "ch_insert"]
    /\ local' = [local EXCEPT ![u] = [k |-> "channel", lobby_id |-> ChannelLobbyId(ch),
                                      channel_id |-> ch]]
    /\ out' = Out(u, "join_channel_lobby", NoMsg, NoMsg)
    /\ UNCHANGED <<lobbies, lobby_code_index, lobby_ctx, sweep>>
    /\ RegFrame

\* get_or_create_channel_lobby after a test that found no lobby: a new lobby is
\* inserted under the id, whatever the map holds there by now
ChannelLobbyInsert(u) ==
    /\ pc[u] = "ch_insert"
    /\ lobbies' = [lobbies EXCEPT ![local[u].lobby_id] = new_channel(local[u].channel_id)]
    /\ pc' = [pc EXCEPT ![u] = "cl_context"]
    /\ out' = Out(u, "channel_lobby_insert", NoMsg, NoMsg)
    /\ UNCHANGED <<local, lobby_code_index, lobby_ctx, sweep>>
    /\ RegFrame

\* both handlers: the user leaves the previous lobby (if it is another one) and the
\* context names the new lobby
CustomLobbyContext(u) ==
    /\ pc[u] = "cl_context"
    /\ lobbies' = IF lobby_ctx[u] # local[u].lobby_id
                  THEN RegRemovePlayer(lobbies, lobby_ctx[u], u)
                  ELSE lobbies
    /\ lobby_ctx' = [lobby_ctx EXCEPT ![u] = local[u].lobby_id]
    /\ pc' = [pc EXCEPT ![u] = "cl_add"]
    /\ out' = Out(u, "custom_lobby_context", NoMsg, NoMsg)
    /\ UNCHANGED <<local, lobby_code_index, sweep>>
    /\ RegFrame

\* both handlers: add_player_to_lobby, lobby_joined if the lobby was found
CustomLobbyAdd(u) ==
    /\ pc[u] = "cl_add"
    /\ lobbies' = RegAddPlayer(lobbies, local[u].lobby_id, u)
    /\ pc' = [pc EXCEPT ![u] = "idle"]
    /\ local' = [local EXCEPT ![u] = NoLocal]
    /\ out' = Out(u, "custom_lobby_add",
                  IF lobbies[local[u].lobby_id].present
                  THEN [type |-> "lobby_joined", lobby_id |-> local[u].lobby_id]
                  ELSE NoMsg,
                  NoMsg)
    /\ UNCHANGED <<lobby_code_index, lobby_ctx, sweep>>
    /\ RegFrame

\* LeaveLobby of a user of the custom lobbies
CustomLobbyLeave(u) ==
    /\ pc[u] = "idle"
    /\ lobby_ctx[u] # NoId
    /\ lobbies' = RegRemovePlayer(lobbies, lobby_ctx[u], u)
    /\ lobby_ctx' = [lobby_ctx EXCEPT ![u] = NoId]
    /\ out' = Out(u, "custom_lobby_leave", NoMsg, NoMsg)
    /\ UNCHANGED <<pc, local, lobby_code_index, sweep>>
    /\ RegFrame

\* lobby_cleanup_task, the scan: the lobbies empty beyond the grace period are listed
RegSweepScan ==
    /\ sweep.pc = "idle"
    /\ sweep' = [pc |-> "remove_lobbies", players_to_remove |-> {}, lobby_to_remove |-> FALSE,
                 lobbies_to_remove |-> {id \in RegistryIds :
                                           /\ lobbies[id].present
                                           /\ lobbies[id].empty_since = "Some"
                                           /\ now - lobbies[id].empty_at > LobbyGrace}]
    /\ out' = Out(NONE, "reg_sweep_scan", NoMsg, NoMsg)
    /\ UNCHANGED <<pc, local, lobbies, lobby_code_index, lobby_ctx>>
    /\ RegFrame

\* lobby_cleanup_task, the removal of the listed lobbies and of their code-index entries
RegSweepRemoveMut ==
    /\ sweep.pc = "remove_lobbies"
    /\ lobbies' = [id \in RegistryIds |->
                      IF id \in sweep.lobbies_to_remove THEN NoLobby ELSE lobbies[id]]
    /\ lobby_code_index' = lobby_code_index
    /\ sweep' = NoSweep
    /\ out' = Out(NONE, "reg_sweep_remove", [type |-> "removed", ids |-> sweep.lobbies_to_remove],
                  NoMsg)
    /\ UNCHANGED <<pc, local, lobby_ctx>>
    /\ RegFrame
RegSweepRemove ==
    /\ sweep.pc = "remove_lobbies"
    /\ lobbies' = [id \in RegistryIds |->
                      IF id \in sweep.lobbies_to_remove THEN NoLobby ELSE lobbies[id]]
    /\ lobby_code_index' = [k \in Codes |->
                               IF \E id \in sweep.lobbies_to_remove :
                                     lobbies[id].present /\ lobbies[id].lobby_code = k
                               THEN NoId ELSE lobby_code_index[k]]
    /\ sweep' = NoSweep
    /\ out' = Out(NONE, "reg_sweep_remove", [type |-> "removed", ids |-> sweep.lobbies_to_remove],
                  NoMsg)
    /\ UNCHANGED <<pc, local, lobby_ctx>>
    /\ RegFrame

\* ------------------------------------------------------ the send queue
\* handle_socket: the channel (tx, rx) of a connection and its send task

QueueFrame ==
    /\ UNCHANGED lobbyVars
    /\ UNCHANGED dbVars
    /\ UNCHANGED sweepVars
    /\ UNCHANGED <<conn_user, context, local, round_turns>>
    /\ UNCHANGED <<lobbies, lobby_code_index, lobby_ctx, probe, broadcast, stalled>>

MessageTypes == {"lobby_joined", "game_state"}

\* tx.send(msg).await by a handler or a broadcast: waits while the channel is full,
\* fails once the receiver is gone
Enqueue(c, type) ==
    /\ pc[c] # "closed"
    /\ enqueued[c] < MaxMsgs
    /\ Len(queue[c]) < ChannelCap
    /\ queue' = [queue EXCEPT ![c] = Append(@, [seq |-> enqueued[c] + 1, type |-> type])]
    /\ enqueued' = [enqueued EXCEPT ![c] = @ + 1]
    /\ out' = Out(c, "enqueue", NoMsg, NoMsg)
    /\ UNCHANGED <<pc, wire>>
    /\ QueueFrame

\* send_task: rx.recv() returns the oldest message, which is written to the socket
SendTaskWriteMut(c) ==
    /\ pc[c] # "closed"
    /\ queue[c] # <<>>
    /\ wire' = [wire EXCEPT ![c] = Append(@, queue[c][Len(queue[c])])]
    /\ queue' = [queue EXCEPT ![c] = SubSeq(@, 1, Len(@) - 1)]
    /\ out' = Out(c, "write", NoMsg, NoMsg)
    /\ UNCHANGED <<pc, enqueued>>
    /\ QueueFrame
SendTaskWrite(c) ==
    /\ pc[c] # "closed"
    /\ queue[c] # <<>>
    /\ wire' = [wire EXCEPT ![c] = Append(@, Head(queue[c]))]
    /\ queue' = [queue EXCEPT ![c] = Tail(@)]
    /\ out' = Out(c, "write", NoMsg, NoMsg)
    /\ UNCHANGED <<pc, enqueued>>
    /\ QueueFrame

\* send_task: serde_json::to_string fails, the message is logged and skipped
SendTaskSkip(c) ==
    /\ pc[c] # "closed"
    /\ queue[c] # <<>>
    /\ queue' = [queue EXCEPT ![c] = Tail(@)]
    /\ out' = Out(c, "skip", NoMsg, NoMsg)
    /\ UNCHANGED <<pc, wire, enqueued>>
    /\ QueueFrame

\* send_task: sender.send fails, the task ends and rx is dropped with what it holds
SendTaskBreak(c) ==
    /\ pc[c] # "closed"
    /\ queue[c] # <<>>
    /\ queue' = [queue EXCEPT ![c] = <<>>]
    /\ pc' = [pc EXCEPT ![c] = "closed"]
    /\ out' = Out(c, "break", NoMsg, NoMsg)
    /\ UNCHANGED <<wire, enqueued>>
    /\ QueueFrame

\* ---------------------------------------------------- broadcast to a lobby
\* broadcast_to_lobby and the loop of broadcast_lobby_player_list, cut at the await of
\* each tx.send; the other specifications take a broadcast as one step (out.bcast)

NoBcast == [type |-> "none", rest |-> <<>>]

\* the channel behind entry.tx of a member: the socket of the user that is in the lobby
SocketOf(u) == CHOOSE c \in AllConns : conn_user[c] = u /\ context[c]

BcastFrame ==
    /\ UNCHANGED lobbyVars
    /\ UNCHANGED dbVars
    /\ UNCHANGED connVars
    /\ UNCHANGED sweepVars
    /\ UNCHANGED round_turns
    /\ UNCHANGED <<lobbies, lobby_code_index, lobby_ctx, probe>>

\* state.lobbies.get(lobby_id) and lobby.players.iter(): the guard of the lobby is
\* taken and the members are visited in the order of the map, which is any order
BroadcastStart(order) ==
    /\ broadcast = NoBcast
    /\ registered
    /\ order # <<>>
    /\ {order[i] : i \in DOMAIN order} = {u \in AllUsers : players[u] # "Absent"}
    /\ \A i, j \in DOMAIN order : order[i] = order[j] => i = j
    /\ \A c \in AllConns : enqueued[c] < MaxMsgs
    /\ broadcast' = [type |-> "game_state", rest |-> order]
    /\ out' = Out(NONE, "broadcast", NoMsg, NoMsg)
    /\ UNCHANGED <<queue, wire, enqueued, stalled>>
    /\ BcastFrame

\* one iteration of the loop: a member that is not Connected is passed over; send on
\* a channel whose receiver is gone fails at once; send on a full channel waits, and
\* the loop with it, until the send task of that connection receives a message
BroadcastSend ==
    /\ broadcast # NoBcast
    /\ LET u == Head(broadcast.rest)
           c == SocketOf(u)
           rest == Tail(broadcast.rest)
       IN /\ IF players[u] # "Connected" \/ pc[c] = "closed"
             THEN UNCHANGED <<queue, enqueued>>
             ELSE /\ Len(queue[c]) < ChannelCap
                  /\ queue' = [queue EXCEPT ![c] = Append(@, [seq |-> enqueued[c] + 1,
                                                              type |-> broadcast.type])]
                  /\ enqueued' = [enqueued EXCEPT ![c] = @ + 1]
          /\ broadcast' = IF rest = <<>> THEN NoBcast ELSE [broadcast EXCEPT !.rest = rest]
    /\ out' = Out(NONE, "broadcast_send", NoMsg, NoMsg)
    /\ UNCHANGED <<wire, stalled>>
    /\ BcastFrame

\* the client of a connection stops reading: sender.send of the send task does not
\* return, so rx is neither read nor dropped
Stall(c) ==
    /\ context[c]
    /\ c \notin stalled
    /\ stalled' = stalled \cup {c}
    /\ out' = Out(c, "stall", NoMsg, NoMsg)
    /\ UNCHANGED <<queue, wire, enqueued, broadcast>>
    /\ BcastFrame

\* state.lobbies.get_mut(lobby_id) of add_player_to_lobby waits for the guard that a
\* broadcast holds over its sends
LobbyFree == broadcast = NoBcast

\* ------------------------------------------------------- grid generation
\* GridGenerator::generate, one random choice per step

ProbeFrame ==
    /\ UNCHANGED lobbyVars
    /\ UNCHANGED dbVars
    /\ UNCHANGED connVars
    /\ UNCHANGED sweepVars
    /\ UNCHANGED round_turns
    /\ UNCHANGED <<lobbies, lobby_code_index, lobby_ctx, queue, wire, enqueued>>
    /\ UNCHANGED <<broadcast, stalled>>

\* the cells the random positions of add_multipliers are drawn from
MultCells == {q \in Pos : q.row < MultRange /\ q.col < MultRange}

\* the 5 x 5 grid of generate before add_multipliers: every multiplier is None
BlankGrid == [q \in Pos |-> [SampleGrid[q] EXCEPT !.multiplier = "None"]]

\* generate up to the loops of add_multipliers: dl_count in 3..=5, tl_count in 2..=3
GenerateStart(dl_count, tl_count) ==
    /\ probe.type = "none" \/ (probe.type = "generate" /\ probe.stage = "done")
    /\ probe' = [type |-> "generate", stage |-> "dl", dl_left |-> dl_count,
                 tl_left |-> tl_count, grid |-> BlankGrid]
    /\ out' = Out(NONE, "generate", NoMsg, NoMsg)
    /\ ProbeFrame

\* one iteration of a loop of add_multipliers: the cell at the random position gets
\* the multiplier of the loop if it has none
AddMultiplier(q) ==
    /\ probe.type = "generate"
    /\ probe.stage # "done"
    /\ LET mult == IF probe.stage = "dl" THEN "DoubleLetter" ELSE "TripleLetter"
           dl == IF probe.stage = "dl" THEN probe.dl_left - 1 ELSE probe.dl_left
           tl == IF probe.stage = "tl" THEN probe.tl_left - 1 ELSE probe.tl_left
       IN probe' = [type |-> "generate",
                    stage |-> IF dl > 0 THEN "dl" ELSE IF tl > 0 THEN "tl" ELSE "done",
                    dl_left |-> dl,
                    tl_left |-> tl,
                    grid |-> IF probe.grid[q].multiplier = "None"
                             THEN [probe.grid EXCEPT ![q].multiplier = mult]
                             ELSE probe.grid]
    /\ out' = Out(NONE, "add_multiplier", NoMsg, NoMsg)
    /\ ProbeFrame

\* -------------------------------------------- scorer and validator inputs

\* all sequences over S of length 0..n
RECURSIVE SeqsUpTo(_, _)
SeqsUpTo(S, n) ==
    IF n = 0 THEN {<<>>}
    ELSE LET shorter == SeqsUpTo(S, n - 1)
         IN shorter \cup {Append(s, x) : s \in {r \in shorter : Len(r) = n - 1}, x \in S}

\* a grid with DoubleWord cells and gems: SampleGrid with DW at (0,1) and (1,4) and a
\* gem at (0,0), (0,1) and (1,1)
GemGrid ==
    [q \in Pos |->
        [SampleGrid[q] EXCEPT
            !.multiplier = IF q \in {P(0, 1), P(1, 4)} THEN "DoubleWord" ELSE @,
            !.has_gem = q \in {P(0, 0), P(0, 1), P(1, 1)}]]

ScoreGrids == {SampleGrid, GemGrid, BlankGrid}

\* the paths handed to the scorer: the short ones over four cells and three long ones
ScorePaths ==
    SeqsUpTo({P(0, 0), P(0, 1), P(0, 2), P(1, 1)}, MaxPathLen)
       \cup {<<P(0, 0), P(1, 1), P(0, 2), P(0, 3), P(0, 4)>>,
              <<P(0, 0), P(1, 1), P(0, 2), P(0, 3), P(0, 4), P(1, 3)>>,
              <<P(0, 0), P(0, 1), P(0, 2), P(0, 3), P(0, 4), P(1, 4), P(2, 4)>>}

\* Scorer::calculate_score_with_gems on one grid and one path
ScoreWord(grid, positions) ==
    /\ probe' = [type |-> "score", grid |-> grid, positions |-> positions,
                 result |-> calculate_score_with_gems(grid, positions)]
    /\ out' = Out(NONE, "score", NoMsg, NoMsg)
    /\ ProbeFrame

\* the positions handed to the validator: cells of the grid and cells beyond its edge
PathCells == {P(0, 0), P(0, 1), P(1, 1), P(2, 2), P(GridSize, 0), P(GridSize - 1, GridSize)}

\* WordValidator::is_valid_path on one path
ValidatePath(positions) ==
    /\ probe' = [type |-> "path", positions |-> positions, result |-> is_valid_path(positions)]
    /\ out' = Out(NONE, "path", NoMsg, NoMsg)
    /\ ProbeFrame

\* ------------------------------------------------------ lobby code encoding
\* encode_lobby_code_to_i64 of db/queries.rs. The accumulator reaches 36^6 - 1, which
\* is beyond 2^31, so an i64 is kept here as two limbs <<hi, lo>> to the base 36^3 that
\* stand for hi * 36^3 + lo; both limbs have the sign of the number and |lo| < 36^3,
\* which makes the pair of a number unique.

LOBBY_CODE_LENGTH == 6

LOBBY_CODE_CHARSET ==
    <<"A", "B", "C", "D", "E", "F", "G", "H", "J", "K", "L", "M", "N", "P", "Q", "R",
      "S", "T", "U", "V", "W", "X", "Y", "Z", "2", "3", "4", "5", "6", "7", "8", "9">>

DecimalChars == <<"0", "1", "2", "3", "4", "5", "6", "7", "8", "9">>

UpperChars ==
    <<"A", "B", "C", "D", "E", "F", "G", "H", "I", "J", "K", "L", "M",
      "N", "O", "P", "Q", "R", "S", "T", "U", "V", "W", "X", "Y", "Z">>

LowerChars ==
    <<"a", "b", "c", "d", "e", "f", "g", "h", "i", "j", "k", "l", "m",
      "n", "o", "p", "q", "r", "s", "t", "u", "v", "w", "x", "y", "z">>

\* c as i64 - first as i64 for a character of the range, -1 for any other
OffsetIn(chars, c) ==
    IF \E i \in DOMAIN chars : chars[i] = c
    THEN (CHOOSE i \in DOMAIN chars : chars[i] = c) - 1
    ELSE -1

\* the match of the loop: '0'..='9', 'A'..='Z', 'a'..='z', and 0 for the rest
DigitOfMut(c) ==
    IF OffsetIn(DecimalChars, c) >= 0 THEN OffsetIn(DecimalChars, c)
    ELSE IF OffsetIn(UpperChars, c) >= 0 THEN OffsetIn(UpperChars, c) + 10
    ELSE 0
DigitOf(c) ==
    IF OffsetIn(DecimalChars, c) >= 0 THEN OffsetIn(DecimalChars, c)
    ELSE IF OffsetIn(UpperChars, c) >= 0 THEN OffsetIn(UpperChars, c) + 10
    ELSE IF OffsetIn(LowerChars, c) >= 0 THEN OffsetIn(LowerChars, c) + 10
    ELSE 0

Limb == 36 * 36 * 36

\* the loop: value = value * 36 + digit, on the limbs of value
RECURSIVE EncodeValue(_, _)
EncodeValue(chars, value) ==
    IF chars = <<>> THEN value
    ELSE LET lo == value[2] * 36 + DigitOf(Head(chars))
         IN EncodeValue(Tail(chars), <<value[1] * 36 + (lo \div Limb), lo % Limb>>)

\* -value.saturating_sub(1) after the loop over code.chars().take(6); the loop leaves
\* value >= 0, so the subtraction never saturates
encode_lobby_code_to_i64(code) ==
    LET taken == SubSeq(code, 1, IF Len(code) < 6 THEN Len(code) ELSE 6)
        value == EncodeValue(taken, <<0, 0>>)
        minus1 == IF value[2] > 0 THEN <<value[1], value[2] - 1>>
                  ELSE IF value[1] > 0 THEN <<value[1] - 1, Limb - 1>>
                  ELSE <<0, -1>>
    IN <<0 - minus1[1], 0 - minus1[2]>>

\* the characters the codes of the check are made of: the last CodeChoices characters
\* of the charset up to "2", that is the largest digit ("Z" = 35) and the smallest ("2")
CodeChars == {LOBBY_CODE_CHARSET[i] : i \in (26 - CodeChoices)..25}

CodeInputs == [1..LOBBY_CODE_LENGTH -> CodeChars]

\* the lower-case form of a code
LowerCaseForm(code) ==
    [i \in 1..Len(code) |->
        IF OffsetIn(UpperChars, code[i]) >= 0
        THEN LowerChars[OffsetIn(UpperChars, code[i]) + 1]
        ELSE code[i]]

\* encode_lobby_code_to_i64 on two codes and on the lower-case form of the first,
\* once in a behaviour
EncodeCodes(a, b) ==
    /\ probe.type = "none"
    /\ probe' = [type |-> "encode", a |-> a, b |-> b,
                 encoded_a |-> encode_lobby_code_to_i64(a),
                 encoded_b |-> encode_lobby_code_to_i64(b),
                 encoded_lower |-> encode_lobby_code_to_i64(LowerCaseForm(a))]
    /\ out' = Out(NONE, "encode", NoMsg, NoMsg)
    /\ ProbeFrame

\* ------------------------------------------------- initial auxiliary state

AuxInit ==
    /\ lobbies = [id \in RegistryIds |-> NoLobby]
    /\ lobby_code_index = [k \in Codes |-> NoId]
    /\ lobby_ctx = [u \in AllUsers |-> NoId]
    /\ queue = [c \in AllConns |-> <<>>]
    /\ wire = [c \in AllConns |-> <<>>]
    /\ enqueued = [c \in AllConns |-> 0]
    /\ probe = NoMsg
    /\ broadcast = NoBcast
    /\ stalled = {}

\* ------------------------------------------------------------ the system

\* the inputs of SubmitWord
WordInputs == {<<"H", "E">>, <<"h", "e">>, <<"A", "T">>, <<"Q", "T">>}
RaceWords == {<<"H", "E">>, <<"Q", "T">>}
PathInputs == {<<P(0, 0), P(0, 1)>>, <<P(0, 0), P(0, 2)>>}

InitWith(C) ==
    /\ players = [u \in AllUsers |-> "Absent"]
    /\ host_id = NONE
    /\ active_game_id = NONE
    /\ game_starting = FALSE
    /\ empty_since = "None"
    /\ conn_user = [c \in AllConns |-> IF c \in DOMAIN C THEN C[c] ELSE NONE]
    /\ context = [c \in AllConns |-> FALSE]
    /\ pc = [c \in AllConns |-> "idle"]
    /\ local = [c \in AllConns |-> NoLocal]
    /\ games = [g \in GameIds |-> NoGame]
    /\ created = 0
    /\ game_players = [g \in GameIds |-> <<>>]
    /\ boards = [g \in GameIds |-> NoBoard]
    /\ moves = <<>>
    /\ out = Out(NONE, "none", NoMsg, NoMsg)
    /\ now = 0
    /\ since = [u \in AllUsers |-> 0]
    /\ empty_at = 0
    /\ registered = FALSE
    /\ sweep = NoSweep
    /\ round_turns = [g \in GameIds |-> <<>>]
    /\ AuxInit

\* the sockets: one per user, every further one a second socket of user 1
Sockets == [c \in Conns |-> IF c <= NumUsers THEN c ELSE 1]

Init == InitWith(Sockets)

\* the sockets of the count gate: one per user
CountSockets == [c \in 1..CountUsers |-> c]

InitCount == InitWith(CountSockets)

LobbyWords == {<<"H", "E">>}

\* the lobby and the start of games: everything may fail, the host may delete the game
Next ==
    \E c \in Conns :
       \/ JoinLobby(c)
       \/ SendActiveGameState(c)
       \/ LeaveLobby(c)
       \/ SocketClose(c)
       \/ StartGameNotInLobby(c)
       \/ StartGameNotHost(c)
       \/ StartGameInProgress(c)
       \/ StartGameRejectCount(c)
       \/ StartGameAccepted(c)
       \/ CreateGameSessionOk(c)
       \/ CreateGameSessionErr(c)
       \/ AddGamePlayersOk(c)
       \/ AddGamePlayersErr(c)
       \/ CreateGameBoardOk(c)
       \/ CreateGameBoardErr(c)
       \/ ActivateAndLink(c)
       \/ ActivateErr(c)
       \/ \E word \in LobbyWords, positions \in PathInputs :
             \/ SubmitWordReject(c, word, positions)
             \/ moves = <<>> /\ SubmitWordAccept(c, word, positions)
       \/ SubmitWordCommit(c)
       \/ PassTurnReject(c)
       \/ PassTurnAccept(c)
       \/ PassTurnCommit(c)
       \/ \E g \in 1..created : AdminDeleteGame(c, g)

Spec == Init /\ [][Next]_vars

\* one session: every socket joins once, the host starts one game, nothing fails
GameStep(c, words) ==
    \/ ~context[c] /\ JoinLobby(c)
    \/ created = 0 /\ StartGameAccepted(c)
    \/ CreateGameSessionOk(c)
    \/ AddGamePlayersOk(c)
    \/ CreateGameBoardOk(c)
    \/ ActivateAndLink(c)
    \/ \E word \in words, positions \in PathInputs :
          \/ SubmitWordReject(c, word, positions)
          \/ SubmitWordAccept(c, word, positions)
    \/ SubmitWordCommit(c)
    \/ PassTurnReject(c)
    \/ PassTurnAccept(c)
    \/ PassTurnCommit(c)

\* a session played over every socket, two of them of user 1
NextGame == \E c \in Conns : GameStep(c, RaceWords) \/ SendActiveGameState(c)

SpecGame == Init /\ [][NextGame]_vars

\* a session played over one socket per user
NextSolo == \E c \in Users : GameStep(c, WordInputs)

SpecSolo == Init /\ [][NextSolo]_vars

\* the count gate of StartGame in a lobby of CountUsers users: the users arrive in
\* order, sockets close and come back; of the persistence after the gate only the
\* failure of create_game_session is followed
NextCount ==
    \E c \in 1..CountUsers :
       \/ /\ ~context[c]
          /\ \A d \in 1..(c - 1) : players[d] # "Absent"
          /\ JoinLobby(c)
       \/ SocketClose(c)
       \/ StartGameNotHost(c)
       \/ StartGameRejectCount(c)
       \/ StartGameAccepted(c)
       \/ CreateGameSessionErr(c)

SpecCount == InitCount /\ [][NextCount]_vars

\* the sockets of the lobby whose host is away: one per user and a second one of user 1
AwaySockets == [c \in 1..(AwayUsers + 1) |-> IF c <= AwayUsers THEN c ELSE 1]

InitAway == InitWith(AwaySockets)

\* one session started by a host whose newer socket may have closed; turns are passed
NextAway ==
    \E c \in 1..(AwayUsers + 1) :
       \/ ~context[c] /\ created = 0 /\ JoinLobby(c)
       \/ created = 0 /\ ~game_starting /\ SocketClose(c)
       \/ created = 0 /\ StartGameAccepted(c)
       \/ CreateGameSessionOk(c)
       \/ AddGamePlayersOk(c)
       \/ CreateGameBoardOk(c)
       \/ ActivateAndLink(c)
       \/ PassTurnReject(c)
       \/ PassTurnAccept(c)
       \/ PassTurnCommit(c)

SpecAway == InitAway /\ [][NextAway]_vars

\* the lobby registry over time: one socket per user, joins, leaves, socket drops,
\* and the cleanup worker whose scan and removals interleave with them
NextSweep ==
    \/ \E c \in Users :
          \/ JoinLobby(c)
          \/ LeaveLobby(c)
          \/ SocketClose(c)
    \/ Tick
    \/ SweepScan
    \/ \E u \in Users : SweepRemovePlayer(u)
    \/ SweepRemoveLobby

SpecSweep == Init /\ [][NextSweep]_vars

\* joining again while a session runs: the sockets drop and join, one game is started
\* and played by passing
NextRejoin ==
    \E c \in Users :
       \/ JoinLobby(c)
       \/ SendActiveGameState(c)
       \/ SendActiveGameStateErr(c)
       \/ SocketClose(c)
       \/ created = 0 /\ StartGameAccepted(c)
       \/ CreateGameSessionOk(c)
       \/ AddGamePlayersOk(c)
       \/ CreateGameBoardOk(c)
       \/ ActivateAndLink(c)
       \/ PassTurnReject(c)
       \/ PassTurnAccept(c)
       \/ PassTurnCommit(c)

SpecRejoin == Init /\ [][NextRejoin]_vars

\* the custom lobbies: creation, joining by code, leaving, and the cleanup of the
\* lobbies that stayed empty
NextCodes ==
    \/ \E u \in Users, code \in Codes : create_custom_lobby(u, code)
    \/ \E u \in Users, code \in Codes : JoinCustomLobbyFind(u, code)
    \/ \E u \in Users : CustomLobbyContext(u)
    \/ \E u \in Users : CustomLobbyAdd(u)
    \/ \E u \in Users : CustomLobbyLeave(u)
    \/ Tick
    \/ RegSweepScan
    \/ RegSweepRemove

SpecCodes == Init /\ [][NextCodes]_vars

\* the users of the lobbies with AwayUsers members, one socket each
BcastUsers == 1..AwayUsers

\* the channel lobbies: users join the lobby of a channel, each handler running beside
\* the others on the multi-threaded runtime, and leave it
NextChannel ==
    \/ \E u \in BcastUsers, ch \in Channels : ChannelLobbyContains(u, ch)
    \/ \E u \in BcastUsers : ChannelLobbyInsert(u)
    \/ \E u \in BcastUsers : CustomLobbyContext(u)
    \/ \E u \in BcastUsers : CustomLobbyAdd(u)
    \/ \E u \in BcastUsers : CustomLobbyLeave(u)

SpecChannel == InitAway /\ [][NextChannel]_vars

\* the encoding of lobby codes
NextEncode == \E a \in CodeInputs, b \in CodeInputs : EncodeCodes(a, b)

SpecEncode == Init /\ [][NextEncode]_vars

\* the grid generator
NextGrid ==
    \/ \E dl_count \in 3..5, tl_count \in 2..3 : GenerateStart(dl_count, tl_count)
    \/ \E q \in MultCells : AddMultiplier(q)

SpecGrid == Init /\ [][NextGrid]_vars

\* the scorer
NextScore == \E grid \in ScoreGrids, positions \in ScorePaths : ScoreWord(grid, positions)

SpecScore == Init /\ [][NextScore]_vars

\* the path validator
NextPath == \E positions \in SeqsUpTo(PathCells, MaxPathLen) : ValidatePath(positions)

SpecPath == Init /\ [][NextPath]_vars

\* the channels of the connections and their send tasks
NextQueue ==
    \/ \E c \in Users, type \in MessageTypes : Enqueue(c, type)
    \/ \E c \in Users : SendTaskWrite(c)
    \/ \E c \in Users : SendTaskSkip(c)
    \/ \E c \in Users : SendTaskBreak(c)

SpecQueue == Init /\ [][NextQueue]_vars

\* the lobby registry with a clock that never stops and a cleanup worker that is
\* scheduled again and again: interval.tick() fires every 15 s and every step of the
\* worker that can run does run
NextCleanup ==
    \/ \E c \in Users :
          \/ JoinLobby(c)
          \/ LeaveLobby(c)
          \/ SocketClose(c)
    \/ Tick
    \/ TickOn
    \/ SweepScan
    \/ \E u \in Users : SweepRemovePlayer(u)
    \/ SweepRemoveLobby

CleanupFairness ==
    /\ WF_vars(Tick \/ TickOn)
    /\ WF_vars(SweepScan)
    /\ WF_vars(\E u \in Users : SweepRemovePlayer(u))
    /\ WF_vars(SweepRemoveLobby)

SpecCleanup == Init /\ [][NextCleanup]_vars /\ CleanupFairness

\* a lobby of AwayUsers users, one socket each: they join, game states are broadcast,
\* the send tasks write, and clients may stop reading
NextBroadcast ==
    \/ \E c \in BcastUsers : LobbyFree /\ ~context[c] /\ JoinLobby(c)
    \/ \E order \in SeqsUpTo(BcastUsers, AwayUsers) : BroadcastStart(order)
    \/ BroadcastSend
    \/ \E c \in BcastUsers : c \notin stalled /\ SendTaskWrite(c)
    \/ \E c \in BcastUsers : Stall(c)

\* every loop of a broadcast and every send task that can take a step takes it
BroadcastFairness ==
    /\ WF_vars(BroadcastSend)
    /\ \A c \in BcastUsers : WF_vars(c \notin stalled /\ SendTaskWrite(c))

SpecBroadcast == InitAway /\ [][NextBroadcast]_vars /\ BroadcastFairness

\* ------------------------------------------------------------- properties

\* the stages of handle_start_game between try_start_game and the link or the error
StartStages == {"sg_create", "sg_players", "sg_board", "sg_activate"}

Starting == {c \in AllConns : pc[c] \in StartStages}

\* the step is the first one of the handler of message op on the socket out'.conn
Begins(op) == out'.conn # NONE /\ out'.op = op /\ pc[out'.conn] = "idle"

\* the persisted score of user u in game g
PersistedScore(g, u) ==
    LET rows == game_players[g]
    IN rows[CHOOSE i \in 1..Len(rows) : rows[i].user_id = u].score

\* C1: in every reachable state the lobby never has active_game_id set while
\* game_starting is true, whatever the interleaving of StartGame, SubmitWord,
\* PassTurn, game end and admin delete
C1_NeverActiveAndStarting == ~(active_game_id # NONE /\ game_starting)

\* C1: a start has been linked: the game is active and the flag is down
C1_Witness ==
    /\ out.bcast.type = "game_started"
    /\ active_game_id # NONE
    /\ ~game_starting

\* C2: of the StartGame requests of the host that are processed concurrently at most
\* one is past try_start_game at any time, and a StartGame of the host that is
\* handled while another one is in flight is answered with game_in_progress and
\* changes neither the lobby nor the persisted sessions
C2_OneStartAtATime ==
    [][/\ Cardinality(Starting') <= 1
       /\ (/\ Begins("start_game")
           /\ context[out'.conn]
           /\ is_host(conn_user[out'.conn])
           /\ Starting # {})
          => /\ out'.reply = Err("game_in_progress")
             /\ pc' = pc
             /\ UNCHANGED lobbyVars
             /\ UNCHANGED dbVars]_vars

\* C2: the host was answered game_in_progress while another StartGame of the host
\* was in flight and the lobby had no active game
C2_Witness ==
    /\ out.op = "start_game"
    /\ out.reply = Err("game_in_progress")
    /\ active_game_id = NONE
    /\ Starting # {}

\* the error codes of a StartGame that fails after try_start_game
StartFailures ==
    {Err("not_enough_players"), Err("too_many_players"),
     Err("database_error"), Err("serialization_error")}

\* C3: when a StartGame that passed try_start_game reports its failure, game_starting
\* is false and active_game_id is unset, so try_start_game succeeds for a later StartGame
C3_FailureClearsStarting ==
    (out.op = "start_game" /\ out.reply \in StartFailures)
        => ~game_starting /\ active_game_id = NONE

\* C3: a start failed after its game row had been inserted
C3_Witness ==
    /\ out.op = "start_game"
    /\ out.reply = Err("database_error")
    /\ created > 0

\* C4: a StartGame of a lobby member who is not the host is answered not_host,
\* leaves every field of the lobby unchanged and creates no game session
C4_NonHostStartRejected ==
    [][(/\ Begins("start_game")
        /\ context[out'.conn]
        /\ host_id # conn_user[out'.conn])
       => /\ out'.reply = Err("not_host")
          /\ pc' = pc
          /\ UNCHANGED lobbyVars
          /\ UNCHANGED dbVars]_vars

\* C4: a connected member who is not the host was answered not_host
C4_Witness ==
    /\ out.op = "start_game"
    /\ out.reply = Err("not_host")
    /\ players[conn_user[out.conn]] = "Connected"
    /\ host_id # NONE

\* the players of the lobby whose connection_state is Connected
ConnectedNow == {u \in AllUsers : players[u] = "Connected"}

\* C5: a StartGame of the host that passes try_start_game goes on to create a session
\* only if the number n of Connected players (AwaitingReconnect not counted) is in
\* 2..6; with n < 2 it is answered not_enough_players, with n > 6 too_many_players,
\* and in both cases nothing is persisted and the handler ends
C5_CountGate ==
    [][(/\ Begins("start_game")
        /\ context[out'.conn]
        /\ host_id = conn_user[out'.conn]
        /\ active_game_id = NONE /\ ~game_starting)
       => LET n == Cardinality(ConnectedNow) IN
          /\ n < 2 => /\ out'.reply = Err("not_enough_players")
                      /\ pc' = pc
                      /\ UNCHANGED dbVars
          /\ n > 6 => /\ out'.reply = Err("too_many_players")
                      /\ pc' = pc
                      /\ UNCHANGED dbVars
          /\ (n >= 2 /\ n <= 6) <=> pc'[out'.conn] = "sg_create"]_vars

\* C5: the host was answered too_many_players with more than 6 players connected
C5_Witness ==
    /\ out.op = "start_game"
    /\ out.reply = Err("too_many_players")
    /\ Cardinality(ConnectedNow) > 6

\* the step is the one in which the handler of an accepted SubmitWord writes
SubmitCommits == out'.conn # NONE /\ out'.op = "submit_word" /\ pc[out'.conn] = "sw_commit"

\* C6: after every accepted SubmitWord the persisted score of the submitting player is
\* the persisted score before plus the Scorer result for the grid before replacement
\* and the positions, and no other player's score changes
C6_ScoreIsAdded ==
    [][SubmitCommits =>
          LET c == out'.conn
              g == local[c].game_state.game_id
              rows == game_players[g]
          IN /\ Len(game_players'[g]) = Len(rows)
             /\ \A i \in 1..Len(rows) :
                   game_players'[g][i].score =
                      IF rows[i].user_id = conn_user[c]
                      THEN rows[i].score
                           + calculate_score(local[c].game_state.grid, local[c].positions)
                      ELSE rows[i].score]_vars

\* the words of the moves recorded for game g, upper-cased
AcceptedWords(g) == {to_uppercase(moves[i].word) : i \in {j \in 1..Len(moves) : moves[j].game_id = g}}

\* C7: the used_words of a session holds the upper-cased word of every accepted
\* SubmitWord of the session, so the next turn loads it with all of them
C7_UsedWordsKeepAccepted ==
    \A g \in GameIds : boards[g].present => AcceptedWords(g) \subseteq boards[g].used_words

\* C8: no word is accepted twice in one session, compared case-insensitively
C8_NoWordAcceptedTwice ==
    \A i, j \in 1..Len(moves) :
        (i < j /\ moves[i].game_id = moves[j].game_id)
            => to_uppercase(moves[i].word) # to_uppercase(moves[j].word)

\* C9: a SubmitWord that is rejected leaves the persisted state of the session
\* unchanged: scores, grid, used_words, moves, current_round, current turn player
C9_RejectChangesNothing ==
    [][(/\ Begins("submit_word")
        /\ out'.reply # NoMsg)
       => /\ UNCHANGED dbVars
          /\ UNCHANGED lobbyVars
          /\ pc' = pc]_vars

\* C9: an invalid path was rejected in a session that already has a recorded move
C9_Witness ==
    /\ out.op = "submit_word"
    /\ out.reply = [type |-> "invalid_word", reason |-> "Invalid path"]
    /\ moves # <<>>
    /\ active_game_id # NONE

\* C10: a SubmitWord or PassTurn that changes the session is sent by the player who is
\* at current_player_index of the persisted session at the moment of the change
C10_OnlyCurrentPlayerChanges ==
    [][(/\ out'.conn # NONE
        /\ out'.op \in {"submit_word", "pass_turn"}
        /\ dbVars' # dbVars)
       => LET c == out'.conn
              g == local[c].game_state.game_id
          IN TurnPlayerId(get_game_players(g), get_active_game_for_lobby(g).current_player_index)
                = conn_user[c]]_vars

\* C11: in every reachable state of a session in progress current_player_index is at
\* least 0 and less than the number of session players, and the persisted current
\* turn player is one of the session's players
C11_TurnPlayerIsSessionPlayer ==
    \A g \in GameIds :
        games[g].state = "active" =>
            LET rows == game_players[g]
                idx == get_active_game_for_lobby(g).current_player_index
            IN /\ idx >= 0
               /\ idx < Len(rows)
               /\ \E i \in 1..Len(rows) : rows[i].user_id = games[g].current_turn_player

\* the step is the one in which the handler of an accepted SubmitWord or PassTurn writes
TurnCommits ==
    /\ out'.conn # NONE
    /\ out'.op \in {"submit_word", "pass_turn"}
    /\ pc[out'.conn] \in {"sw_commit", "pt_commit"}

\* the user ids of the players of session g
SessionPlayers(g) == {game_players[g][i].user_id : i \in 1..Len(game_players[g])}

\* C12: every round of a session consists of exactly one accepted turn (SubmitWord or
\* PassTurn) of each of its N players: nobody takes a second turn in a round, and when
\* an accepted turn moves current_round or ends the game every player has taken one,
\* so that the game is over after N x R accepted turns
C12_EachRoundEveryPlayerOnce ==
    [][TurnCommits =>
          LET c == out'.conn
              g == local[c].game_state.game_id
          IN /\ conn_user[c] \notin Range(round_turns[g])
             /\ (\/ games'[g].current_round # games[g].current_round
                 \/ games'[g].state = "finished")
                => Range(round_turns[g]) \cup {conn_user[c]} = SessionPlayers(g)]_vars

\* the moves recorded for game g
MovesOf(g) == SelectSeq(moves, LAMBDA m : m.game_id = g)

\* C13: when an accepted SubmitWord or PassTurn takes current_round past total_rounds
\* the session is persisted as finished, active_game_id is cleared, GameOver is
\* broadcast and try_start_game succeeds again; and no SubmitWord or PassTurn changes
\* a session that is finished
C13_GameOverIsTerminal ==
    [][/\ TurnCommits =>
             LET c == out'.conn
                 gs == local[c].game_state
                 g == gs.game_id
                 adv == AdvanceTurn(gs.current_player_index, Len(local[c].player_records),
                                    gs.current_round)
             IN adv[2] > gs.total_rounds
                   => /\ games'[g].state = "finished"
                      /\ active_game_id' = NONE
                      /\ ~game_starting'
                      /\ out'.bcast.type = "game_over"
       /\ (out'.conn # NONE /\ out'.op \in {"submit_word", "pass_turn"})
             => \A g \in GameIds :
                   games[g].state = "finished"
                      => /\ games'[g] = games[g]
                         /\ game_players'[g] = game_players[g]
                         /\ boards'[g] = boards[g]
                         /\ MovesOf(g)' = MovesOf(g)]_vars

\* C14: the winner reported in a GameOver is a player listed in final_scores whose
\* final score is greater than or equal to the final score of every other player,
\* and a winner is reported whenever final_scores lists a player
C14_WinnerHasMaxScore ==
    out.bcast.type = "game_over" =>
        /\ out.bcast.final_scores # {} => out.bcast.winner # NONE
        /\ out.bcast.winner # NONE =>
              \E w \in out.bcast.final_scores :
                  /\ w[1] = out.bcast.winner
                  /\ \A p \in out.bcast.final_scores : p[2] <= w[2]

\* C14: a GameOver was broadcast in which the players have different final scores
C14_Witness ==
    /\ out.bcast.type = "game_over"
    /\ \E p, q \in out.bcast.final_scores : p[2] < q[2]

\* the step is a removal step of the cleanup worker
SweepRemoves == out'.op \in {"sweep_player", "sweep_lobby"}

\* C15: a player in AwaitingReconnect stays in lobby.players until that player joins
\* again or the cleanup worker removes the player at a time now with
\* now - since > 60 s; the cleanup worker removes no player whose grace is 60 s or
\* less and no Connected player
C15_PlayerGraceRespected ==
    [][\A u \in AllUsers :
          /\ (players[u] = "AwaitingReconnect" /\ players'[u] # "AwaitingReconnect")
                => \/ /\ out'.op = "join"
                      /\ conn_user[out'.conn] = u
                      /\ players'[u] = "Connected"
                   \/ /\ SweepRemoves
                      /\ now - since[u] > PlayerGrace
          /\ (SweepRemoves /\ players[u] # "Absent" /\ players'[u] = "Absent")
                => /\ players[u] = "AwaitingReconnect"
                   /\ now - since[u] > PlayerGrace]_vars

\* C16: the lobby leaves the registry only in a removal step of the cleanup worker, at
\* a time now at which empty_since is set and now - empty_since > 120 s
C16_LobbyGraceRespected ==
    [][(registered /\ ~registered')
          => /\ out'.op = "sweep_lobby"
             /\ empty_since = "Some"
             /\ now - empty_at > LobbyGrace
             /\ ConnectedNow = {}]_vars

\* C17: after every lobby operation (join, reconnect, leave, socket drop, cleanup
\* removal of a player) empty_since is set if and only if no member is Connected
C17_EmptySinceIffNoneConnected ==
    (registered /\ out.op \in {"join", "leave", "close", "sweep_player"})
        => (empty_since = "Some" <=> ConnectedNow = {})

\* the members of the lobby: the keys of lobby.players
Members == {u \in AllUsers : players[u] # "Absent"}

\* C18: whenever lobby.players is non-empty, host_id names a member of lobby.players
C18_HostIsMember ==
    (registered /\ Members # {}) => host_id \in Members

\* C19: a join of the lobby by a user who is already in lobby.players leaves the set
\* of members, the state of every other member and host_id as they were, sets the
\* user's state to Connected and clears empty_since
C19_RejoinIsIdempotent ==
    [][(/\ out'.conn # NONE
        /\ out'.op = "join"
        /\ players[conn_user[out'.conn]] # "Absent")
       => /\ Members' = Members
          /\ host_id' = host_id
          /\ players'[conn_user[out'.conn]] = "Connected"
          /\ \A v \in AllUsers \ {conn_user[out'.conn]} : players'[v] = players[v]
          /\ empty_since' = "None"
          /\ UNCHANGED <<active_game_id, game_starting>>]_vars

\* C19: a member joined again on one socket while another socket of the same user
\* is attached to the lobby
C19_Witness ==
    /\ out.op = "join"
    /\ out.reply.rejoin
    /\ \E d \in AllConns : /\ d # out.conn
                            /\ conn_user[d] = conn_user[out.conn]
                            /\ context[d]

\* C20: every lobby_player_list broadcast lists exactly the members of lobby.players,
\* those in AwaitingReconnect included, and is enqueued only for the Connected members
C20_PlayerListIsExact ==
    out.bcast.type = "lobby_player_list"
        => /\ out.bcast.players = Members
           /\ out.bcast.to = ConnectedNow

\* C20: a player list was broadcast that names a member in AwaitingReconnect
C20_Witness ==
    /\ out.bcast.type = "lobby_player_list"
    /\ \E u \in out.bcast.players : players[u] = "AwaitingReconnect"
    /\ out.bcast.to # {}

\* C21: create_custom_lobby never returns a code that belongs to a lobby of the
\* registry: every lobby that was in the registry is still there after the call, with
\* its players, and is still the one its code leads to
C21_CreateReturnsFreshCode ==
    [][out'.op = "create_custom_lobby" =>
          /\ ~lobbies[out'.reply.lobby_id].present
          /\ \A id \in LobbyIds :
                lobbies[id].present =>
                   /\ lobbies'[id].present
                   /\ lobbies'[id].players = lobbies[id].players
                   /\ lobbies'[id].created_at = lobbies[id].created_at
                   /\ lobby_code_index'[lobbies[id].lobby_code] = id]_vars

\* C30: the code index and the registry agree: every entry of the index leads to a
\* custom lobby of the registry that has this code, every custom lobby of the registry
\* has its entry, and the code of a lobby the cleanup removed leads nowhere
CodeIndexAgrees ==
    /\ \A k \in Codes :
          lobby_code_index[k] # NoId =>
             /\ lobbies[lobby_code_index[k]].present
             /\ lobbies[lobby_code_index[k]].lobby_code = k
    /\ \A id \in LobbyIds :
          lobbies[id].present => lobby_code_index[lobbies[id].lobby_code] = id

C26_WrittenInEnqueueOrder ==
    \A c \in Conns :
       LET s == wire[c] \o queue[c]
       IN \A i, j \in 1..Len(s) : i < j => s[i].seq < s[j].seq

C26_Witness ==
    \E c \in Conns :
       /\ Len(wire[c]) >= 2
       /\ queue[c] = <<>>
       /\ \E i \in 1..(Len(wire[c]) - 1) : wire[c][i + 1].seq > wire[c][i].seq + 1

\* the join of connection c ends in this step: what follows lobby_joined is decided
JoinEnds(c) == pc[c] = "join_state" /\ pc'[c] # "join_state"

C23_MultiplierCount ==
    (probe.type = "generate" /\ probe.stage = "done")
       => /\ DOMAIN probe.grid = Pos
          /\ Cardinality(Pos) = 25
          /\ Cardinality({q \in Pos : probe.grid[q].multiplier # "None"}) \in 5..8

\* the sum over the cells of a path of value x 2 (DoubleLetter), value x 3
\* (TripleLetter) or value (otherwise)
RECURSIVE PathSum(_, _)
PathSum(grid, path) ==
    IF path = <<>> THEN 0
    ELSE LET cell == grid[Head(path)]
             weight == IF cell.multiplier = "DoubleLetter" THEN 2
                       ELSE IF cell.multiplier = "TripleLetter" THEN 3 ELSE 1
         IN cell.value * weight + PathSum(grid, Tail(path))

\* C24: the score is m x S + b: S the weighted letter sum, m = 2 if a cell of the path
\* is DoubleWord and 1 otherwise, b = 10 if the path has 6 or more cells and 0
\* otherwise; gems_collected counts the cells of the path with a gem
C24_ScoreFormula ==
    probe.type = "score" =>
       LET path == probe.positions
           S == PathSum(probe.grid, path)
           m == IF \E i \in 1..Len(path) : probe.grid[path[i]].multiplier = "DoubleWord"
                THEN 2 ELSE 1
           b == IF Len(path) >= 6 THEN 10 ELSE 0
       IN /\ probe.result.score = m * S + b
          /\ probe.result.gems_collected
                = Cardinality({i \in 1..Len(path) : probe.grid[path[i]].has_gem})

\* C24: a path of six cells over a DoubleWord cell and cells with gems was scored
C24_Witness ==
    /\ probe.type = "score"
    /\ Len(probe.positions) >= 6
    /\ \E i \in 1..Len(probe.positions) :
          probe.grid[probe.positions[i]].multiplier = "DoubleWord"
    /\ probe.result.gems_collected > 0
    /\ probe.result.score > 10

\* C25: is_valid_path is true exactly for the non-empty paths whose consecutive
\* positions are neighbours (at most 1 apart in row and in column, not the same cell),
\* that visit no position twice and stay within the 5 x 5 grid; a single position
\* within the grid is a valid path
C25_ValidPathExactly ==
    probe.type = "path" =>
       LET path == probe.positions
           n == Len(path)
           near(a, b) == /\ a.row - b.row \in {-1, 0, 1}
                         /\ a.col - b.col \in {-1, 0, 1}
                         /\ a # b
       IN /\ probe.result
               <=> /\ n >= 1
                   /\ \A i \in 1..n : i < n => near(path[i], path[i + 1])
                   /\ \A i, j \in 1..n : i < j => path[i] # path[j]
                   /\ \A i \in 1..n : path[i].row < 5 /\ path[i].col < 5
          /\ (n = 1 /\ path[1] \in Pos) => probe.result

\* C25: a path of three neighbouring cells was accepted
C25_Witness ==
    /\ probe.type = "path"
    /\ Len(probe.positions) = 3
    /\ probe.result

\* C27: after every accepted SubmitWord or PassTurn that does not end the game the
\* current player is the one at index (i + 1) mod N, i being the index of the current
\* player before and N the number of players of the session, and current_round has
\* grown by 1 if i = N - 1 and is unchanged otherwise
C27_TurnAdvances ==
    [][TurnCommits =>
          LET c == out'.conn
              g == local[c].game_state.game_id
              N == Len(game_players[g])
              i == CurrentPlayerIndex(game_players[g], games[g].current_turn_player)
          IN (/\ GameExists(g)
              /\ games[g].state = "active"
              /\ games'[g].state # "finished"
              /\ N > 0)
             => /\ games'[g].current_turn_player
                     = get_game_players(g)[((i + 1) % N) + 1].user_id
                /\ games'[g].current_round
                     = games[g].current_round + (IF i = N - 1 THEN 1 ELSE 0)]_vars

\* C28: an accepted PassTurn changes only the turn, and the round or the finished
\* status on wrap: the score of every player, the grid, used_words and the recorded
\* moves are after it what they were before; no session is created and the status
\* of a session stays or becomes finished
C28_PassTurnKeepsScoresAndBoard ==
    [][(out'.conn # NONE /\ out'.op = "pass_turn" /\ pc[out'.conn] = "pt_commit")
          => /\ game_players' = game_players
             /\ boards' = boards
             /\ moves' = moves
             /\ created' = created
             /\ \A g \in GameIds :
                   /\ games'[g].max_rounds = games[g].max_rounds
                   /\ games'[g].state \in {games[g].state, "finished"}]_vars

\* C28: a turn was passed in a session in which a word had been scored
C28_Witness ==
    /\ out.conn # NONE
    /\ out.op = "pass_turn"
    /\ out.bcast.type \in {"game_state", "game_over"}
    /\ moves # <<>>
    /\ \E g \in GameIds : \E i \in 1..Len(game_players[g]) : game_players[g][i].score > 0

\* C29: when a socket closes while its connection is in a lobby, the user of the
\* socket becomes AwaitingReconnect if it is a member, no other member's state
\* changes, the members and host_id stay, empty_since is left alone or set, the
\* session link and start flag stay, and nothing is sent or broadcast
C29_CloseOnlyMarksAwaiting ==
    [][(out'.conn # NONE /\ out'.op = "close")
          => LET c == out'.conn
                 u == conn_user[c]
             IN /\ context[c]
                /\ \A v \in AllUsers :
                      players'[v] = IF v = u /\ registered /\ players[v] # "Absent"
                                    THEN "AwaitingReconnect"
                                    ELSE players[v]
                /\ {v \in AllUsers : players'[v] # "Absent"} = Members
                /\ host_id' = host_id
                /\ empty_since' \in {empty_since, "Some"}
                /\ active_game_id' = active_game_id
                /\ game_starting' = game_starting
                /\ out'.reply = NoMsg
                /\ out'.bcast = NoMsg
                /\ UNCHANGED dbVars
                /\ UNCHANGED <<queue, wire, enqueued>>]_vars

\* C29: the socket of the host closed while another member is Connected: the host
\* is AwaitingReconnect, still host, and empty_since is not set
C29_Witness ==
    /\ out.conn # NONE
    /\ out.op = "close"
    /\ players[conn_user[out.conn]] = "AwaitingReconnect"
    /\ host_id = conn_user[out.conn]
    /\ \E v \in AllUsers : v # conn_user[out.conn] /\ players[v] = "Connected"
    /\ empty_since = "None"

\* the member is still to be visited by the broadcast in flight
BroadcastPending(u) == \E i \in DOMAIN broadcast.rest : broadcast.rest[i] = u

\* C31: a Connected recipient whose full queue is not drained does not keep a
\* broadcast from the other recipients: a member whose client reads is visited by
\* the broadcast in flight sooner or later; and it does not block the lobby for
\* ever: the broadcast ends and gives up its guard
C31_BroadcastNotBlockedByFullQueue ==
    /\ \A u \in BcastUsers :
          (BroadcastPending(u) /\ u \notin stalled)
             ~> (~BroadcastPending(u) \/ u \in stalled)
    /\ (broadcast # NoBcast) ~> (broadcast = NoBcast)

\* C32: a user joined the lobby on a new socket and then the close of an older socket
\* of that user, which was in the same lobby, is handled: the user is Connected after
\* the close, for the newer socket is live
C32_SupersededCloseKeepsConnected ==
    [][(/\ out'.conn # NONE /\ out'.op = "close"
        /\ out.conn # NONE /\ out.op = "join"
        /\ out.conn # out'.conn
        /\ conn_user[out.conn] = conn_user[out'.conn]
        /\ context[out.conn] /\ context'[out.conn])
          => players'[conn_user[out'.conn]] = "Connected"]_vars

\* C33: the cleanup worker removes no player who is Connected at the moment of the
\* removal: a player who reconnected between the scan and the removal step stays in
\* lobby.players
C33_SweepKeepsConnectedPlayer ==
    [][(out'.op = "sweep_player")
          => \A u \in AllUsers :
                players[u] = "Connected" => players'[u] = "Connected"]_vars

\* C34: the cleanup worker removes no lobby that has a Connected member or whose
\* empty_since is unset at the moment of the removal: such a lobby stays in the
\* registry with its members
C34_SweepKeepsJoinedLobby ==
    [][(out'.op = "sweep_lobby" /\ registered /\ (ConnectedNow # {} \/ empty_since = "None"))
          => /\ registered'
             /\ players' = players]_vars

\* C35: under a fair cleanup worker a lobby that has no Connected member and gets no
\* further join is removed from the registry sooner or later: no behaviour ends in
\* the lobby staying registered for ever with no member Connected
C35_AbandonedLobbyIsRemoved ==
    []<>(~registered \/ ConnectedNow # {})

\* C36: after a successful StartGame the current_player_id of the game_started
\* broadcast is the player at current_player_index of the persisted session, the one
\* whose first turn passes the turn check
C36_AnnouncedPlayerHasTheTurn ==
    (out.op = "start_game" /\ out.bcast.type = "game_started"
        /\ GameExists(out.bcast.game_id) /\ games[out.bcast.game_id].state = "active")
      => LET g == out.bcast.game_id
             rows == PlayersByTeam(game_players[g])
             idx == get_active_game_for_lobby(g).current_player_index
         IN /\ idx < Len(rows)
            /\ out.bcast.current_player_id = rows[idx + 1].user_id

\* C37: for each turn of a session at most one move is recorded: a player has one
\* turn in a round, so no two recorded moves have the same session, player and round
C37_OneMovePerTurn ==
    \A i, j \in 1..Len(moves) :
        (/\ moves[i].game_id = moves[j].game_id
         /\ moves[i].user_id = moves[j].user_id
         /\ moves[i].round_number = moves[j].round_number)
           => i = j

\* C38: when the joins of a channel lobby have all completed, the lobby of the channel
\* exists and holds every user whose context names it: a get_or_create_channel_lobby
\* running beside the others replaces no lobby that holds players
C38_ChannelLobbyHoldsEveryJoiner ==
    (\A u \in BcastUsers : pc[u] = "idle")
       => \A u \in BcastUsers, ch \in Channels :
             lobby_ctx[u] = ChannelLobbyId(ch)
                => /\ lobbies[ChannelLobbyId(ch)].present
                   /\ u \in lobbies[ChannelLobbyId(ch)].players

\* C39: a PassTurn changes a session only if the lobby's active_game_id refers to
\* it: while active_game_id is unset a step of a PassTurn changes no persisted game
\* and broadcasts neither game_state nor game_over
C39_PassTurnNeedsLinkedGame ==
    [][(out'.conn # NONE /\ out'.op = "pass_turn" /\ active_game_id = NONE)
          => /\ dbVars' = dbVars
             /\ out'.bcast.type \notin {"game_state", "game_over"}]_vars

\* the i64 of the limbs is below zero
IsNegative(x) == x[1] < 0 \/ (x[1] = 0 /\ x[2] < 0)

\* C40: for 6-character codes over the lobby alphabet encode_lobby_code_to_i64 is
\* strictly negative, maps two different codes to different integers, and maps a
\* code and its lower-case form to the same integer
C40_EncodeNegativeInjectiveCaseless ==
    probe.type = "encode"
       => /\ IsNegative(probe.encoded_a)
          /\ IsNegative(probe.encoded_b)
          /\ (probe.a # probe.b => probe.encoded_a # probe.encoded_b)
          /\ probe.encoded_lower = probe.encoded_a

\* C40: two different codes were encoded, the first one "ZZZZZZ", the largest, whose
\* lower-case form differs from it; the second one "222222", the smallest
C40_Witness ==
    /\ probe.type = "encode"
    /\ probe.a = [i \in 1..LOBBY_CODE_LENGTH |-> "Z"]
    /\ probe.b = [i \in 1..LOBBY_CODE_LENGTH |-> "2"]
    /\ probe.encoded_a = <<0 - (Limb - 1), 0 - (Limb - 2)>>
    /\ probe.encoded_b # probe.encoded_a

====
